---- MODULE Spec2Model ----
(***************************************************************************)
(* Grimoire: the decklist job pipeline of package job.                     *)
(*                                                                         *)
(* Spec follows one submitted job through CreateJob, the queue worker's    *)
(* ProcessDecklistHandler (line filtering, the per-line resolution         *)
(* goroutines behind the semaphore, the results channel and its            *)
(* collector), GeneratePDF (the URI list, the image fetch fan-out, the     *)
(* page loop, WriteTo) and the job's status, PDF and Error fields.         *)
(*                                                                         *)
(* SpecRL is the rate limiter rateLimitWait under a discrete clock, with   *)
(* several concurrent callers.                                             *)
(*                                                                         *)
(* SpecLookup is the resolution goroutine of one line with every catalog   *)
(* request it makes; SpecDeadline is Spec with the task's deadline;        *)
(* SpecQueue is the bounded queue under many submissions; SpecSweep is the *)
(* sweeper cleanupJobs under a wall clock; SpecStore is everything that    *)
(* stores or deletes a job record.                                         *)
(***************************************************************************)
EXTENDS Integers, Sequences, FiniteSets, TLC

\* ------------------------------------------------------------------------
\* Bounds of the model
\* ------------------------------------------------------------------------
MaxLines == 2      \* lines of a submitted decklist
MaxQty == 2        \* largest quantity written on a line
MaxCopies == 2     \* total copies a submitted decklist asks for
NumCallers == 2    \* goroutines calling rateLimitWait
MaxCalls == 3      \* calls of rateLimitWait followed
Tick == 50         \* ms the clock advances in one step
BootTime == 100    \* ms between the zero time.Time and the first call
MaxTime == 500     \* ms at which the clock is stopped
MaxSubmissions == 102    \* CreateJob calls followed in SpecQueue
SweepJobs == 2     \* CreateJob calls followed in SpecSweep
WallTick == 15     \* minutes the wall clock advances in one step
MaxWall == 120     \* minutes at which the wall clock is stopped
StoreTick == 75    \* minutes the wall clock advances in one step of SpecStore
StoreStop == 75    \* minutes at which SpecStore stops the wall clock
ApiJobs == 2       \* CreateJob calls followed in SpecAPI
MaxName == 4       \* characters in a card name given to the parser
MaxCPU == 3        \* runtime.NumCPU() at most
PoolJobs == 4      \* CreateJob calls followed in SpecPool

\* ------------------------------------------------------------------------
\* Program constants
\* ------------------------------------------------------------------------
maxConcurrent == 1       \* capacity of the resolution semaphore
handlerAttempts == 3     \* ParseCard tries made by the handler per line
maxRetries == 3          \* catalog requests per ParseCard call
baseDelay == 100         \* ms, backoff after a transport failure
throttleDelay == 5000    \* ms, backoff after a 429
imageRetries == 2        \* GeneratePDF's argument to FetchImageWithRetry
minInterval == 100       \* ms, rateLimitWait's spacing
queueSize == 100         \* queue.WithQueueSize
sweepInterval == 30      \* minutes, cleanupJobs' ticker
retention == 60          \* minutes, the age past which cleanupJobs deletes
taskTimeout == 2         \* minutes, the Timeout option CreateJob enqueues with
handlerDelay == 1000     \* ms, unit of the handler's sleep between ParseCard tries

imageBaseDelay == 1000      \* the fetcher's backoff of 1 s, in ms
imageThrottleDelay == 5000  \* the fetcher's sleep after a 429, in ms
JobID == 1               \* the identifier uuid.New() gave the job

VARIABLES
    jobs,           \* sync.Map: job id -> GrimoireJob [Status, PDF, Error]
    queue,          \* tasks enqueued and not yet taken by a worker
    pc,             \* position of the worker in ProcessDecklistHandler
    task,           \* the DecklistTask the worker unmarshalled
    nonEmptyLines,  \* the handler's filtered lines
    resolver,       \* per line: state of its resolution goroutine
    attempt,        \* per line: the goroutine's loop variable attempt
    semaphore,      \* number of tokens in the semaphore channel
    resultsChan,    \* buffered channel of {card, err}
    chanClosed,     \* close(resultsChan) has run
    cards,          \* the collector's cards slice
    errors,         \* the collector's errors slice
    allURIs,        \* GeneratePDF: one entry per (card, copy, face)
    fetcher,        \* per URI index: state of its fetch goroutine
    errs,           \* GeneratePDF: errs[i] # nil
    imageData,      \* GeneratePDF: imageData[i] was stored
    pageIdx,        \* GeneratePDF: loop variable of the page loop
    pdf,            \* GeneratePDF: pages added to the gopdf document so far
    statusHist,     \* history: every value Status has taken, in order
    imageFetches,   \* history: FetchImageWithRetry calls made for the job
    clock,            \* the time, in ms
    lastRequestTime,  \* rate limiter: time of the last permitted call
    rateLimiterMutex, \* rate limiter: the caller holding the mutex, or 0
    rlpc,             \* per caller: position in rateLimitWait
    now,              \* per caller: rateLimitWait's local now
    returns,          \* history: time and caller of every return of rateLimitWait
    lkpc,           \* one line's resolution goroutine: idle, run or done
    lkLine,         \* the line that goroutine resolves
    lkAttempt,      \* the goroutine's loop variable attempt
    lkSent,         \* history: every catalog request made for the line
    lkResult,       \* what the goroutine sends on resultsChan
    timedOut,       \* the context of the running task is past its deadline
    submitted,      \* number of CreateJob calls so far (the next call's id - 1)
    creating,       \* id of the job a CreateJob call stored and failed to enqueue, or 0
    rejected,       \* history: ids of the jobs CreateJob returned an error for
    wall,           \* the wall clock, in minutes
    nextSweep,      \* the time of the sweeper's next tick
    requested,      \* history: the lines a catalog request was made for
    metaStatus,     \* history: the job's Status at the catalog requests
    served,         \* the API server's last request, its handler and its answer
    parsed,         \* the last line given to the parser and what it made of it
    fetchPc,        \* position of one FetchImageWithRetry call
    fetchAttempt,   \* its loop variable attempt
    fetchTrace,     \* what it did so far: sleeps, limiter calls, requests
    fetchResult,    \* what it returned
    workers,        \* size of the worker pool InitQueue built (0: not built)
    running,        \* per worker: the job id whose handler it executes, or 0
    taken           \* job ids of the tasks workers took from the queue, in order

jobVars == <<jobs, queue, pc, task, nonEmptyLines, resolver, attempt, semaphore,
             resultsChan, chanClosed, cards, errors, allURIs, fetcher, errs,
             imageData, pageIdx, pdf, statusHist, imageFetches>>

rlVars == <<clock, lastRequestTime, rateLimiterMutex, rlpc, now, returns>>

lookupVars == <<lkpc, lkLine, lkAttempt, lkSent, lkResult>>

poolVars == <<submitted, creating, rejected>>

sweepVars == <<wall, nextSweep>>

traceVars == <<requested, metaStatus>>

parseVars == <<parsed>>
fetchVars == <<fetchPc, fetchAttempt, fetchTrace, fetchResult>>
workerVars == <<workers, running, taken>>
sideVars == <<parseVars, fetchVars, workerVars>>
nonFetchVars == <<jobVars, rlVars, lookupVars, timedOut, poolVars, sweepVars, traceVars,
                  served, parseVars, workerVars>>
vars == <<jobVars, rlVars, lookupVars, timedOut, poolVars, sweepVars, traceVars, served, sideVars>>

\* What the actions of the job's pipeline, of the rate limiter and of the
\* single-line resolution leave alone.
restVars == <<rlVars, lookupVars, timedOut, poolVars, sweepVars, traceVars, served, sideVars>>
nonRLVars == <<jobVars, lookupVars, timedOut, poolVars, sweepVars, traceVars, served, sideVars>>
nonLookupVars == <<jobVars, rlVars, timedOut, poolVars, sweepVars, traceVars, served, sideVars>>

resolveVars == <<resolver, attempt, semaphore, resultsChan, chanClosed, cards, errors>>
pdfVars == <<allURIs, fetcher, errs, imageData, pageIdx, pdf, imageFetches>>

\* ------------------------------------------------------------------------
\* Values
\* ------------------------------------------------------------------------
NilPDF == [set |-> FALSE, pages |-> <<>>]
NilError == [set |-> FALSE, kind |-> "", count |-> 0, causes |-> <<>>]
Buffer(pages) == [set |-> TRUE, pages |-> pages]
Errorf(kind, n) == [set |-> TRUE, kind |-> kind, count |-> n, causes |-> <<>>]

\* fmt.Errorf("failed to parse %q: %w", line, err): the message quotes the
\* line's text and the ParseCard error; it has no line number (lineNo 0).
FailedToParse(line, err) == [err |-> err, quoted |-> line, lineNo |-> 0]

\* fmt.Errorf("encountered %d errors: %v", len(errors), errors)
Encountered(es) ==
    [set |-> TRUE, kind |-> "resolve", count |-> Len(es), causes |-> es]

\* A decklist line, by what the handler and ParseCard make of it: blank after
\* TrimSpace, matching neither pattern, or a card line with its quantity.
BlankLine == [kind |-> "blank", qty |-> 0]
BadLine == [kind |-> "bad", qty |-> 0]
CardLine(q) == [kind |-> "card", qty |-> q]
Lines == {BlankLine, BadLine} \cup {CardLine(q) : q \in 0..MaxQty}

RECURSIVE TotalQty(_)
TotalQty(d) == IF d = <<>> THEN 0 ELSE Head(d).qty + TotalQty(Tail(d))

SeqsUpTo(S, n) == UNION {[1..k -> S] : k \in 0..n}
Decklists == {d \in SeqsUpTo(Lines, MaxLines) : TotalQty(d) <= MaxCopies}

Layouts == {"normal", "transform", "modal_dfc"}

Callers == 1..NumCallers

\* What one catalog request comes back with.
MetaResponses ==
    {[kind |-> k, layout |-> ""] : k \in {"transport", "throttle", "status", "baddecode"}}
    \cup {[kind |-> "ok", layout |-> l] : l \in Layouts}

\* What one image request comes back with.
ImageResponses == {"transport", "throttle", "status", "readerr", "ok"}

\* ------------------------------------------------------------------------
\* ParseCard: the line's pattern match, then the catalog lookup loop.
\* resp[a+1] is what the request of attempt a comes back with.
\* ------------------------------------------------------------------------
NoCard == [src |-> 0, Quantity |-> 0, Layout |-> "", ImageURIs |-> {}]

\* Variant: only the transform layout gets a back face.
FaceKeys_TransformOnly(layout) ==
    IF layout = "transform" THEN {"front", "back"} ELSE {"front"}

\* The ImageURIs map ParseCard builds from the layout: its keys.
FaceKeys(layout) ==
    IF layout = "transform" \/ layout = "modal_dfc" THEN {"front", "back"} ELSE {"front"}

ParseErr(kind, n, delays) ==
    [err |-> kind, card |-> NoCard, requests |-> n, delays |-> delays]

\* Variant: an error status is retried inside the call like a transport
\* failure.
RECURSIVE LookupLoop_RetryStatus(_, _, _, _)
LookupLoop_RetryStatus(line, src, resp, a) ==
    LET r == resp[a + 1]
        delays == [k \in 1..a |->
                     IF resp[k].kind = "throttle" THEN throttleDelay * 2^(k - 1)
                     ELSE baseDelay * 2^(k - 1)]
    IN  IF r.kind \in {"transport", "throttle", "status"}
        THEN IF a = maxRetries - 1 THEN ParseErr(r.kind, a + 1, delays)
             ELSE LookupLoop_RetryStatus(line, src, resp, a + 1)
        ELSE IF r.kind = "baddecode" THEN ParseErr("decode", a + 1, delays)
        ELSE [err |-> "",
              card |-> [src |-> src, Quantity |-> line.qty, Layout |-> r.layout,
                        ImageURIs |-> FaceKeys(r.layout)],
              requests |-> a + 1, delays |-> delays]

RECURSIVE LookupLoop(_, _, _, _)
LookupLoop(line, src, resp, a) ==
    LET r == resp[a + 1]
        delays == [k \in 1..a |->
                     IF resp[k].kind = "throttle" THEN throttleDelay * 2^(k - 1)
                     ELSE baseDelay * 2^(k - 1)]
    IN  IF r.kind = "transport"
        THEN IF a = maxRetries - 1 THEN ParseErr("transport", a + 1, delays)
             ELSE LookupLoop(line, src, resp, a + 1)
        ELSE IF r.kind = "throttle"
        THEN IF a = maxRetries - 1 THEN ParseErr("throttle", a + 1, delays)
             ELSE LookupLoop(line, src, resp, a + 1)
        ELSE IF r.kind = "status" THEN ParseErr("status", a + 1, delays)
        ELSE IF r.kind = "baddecode" THEN ParseErr("decode", a + 1, delays)
        ELSE [err |-> "",
              card |-> [src |-> src, Quantity |-> line.qty, Layout |-> r.layout,
                        ImageURIs |-> FaceKeys(r.layout)],
              requests |-> a + 1, delays |-> delays]

\* Variant: a line matching neither pattern is looked up all the same.
ParseCard_LookupAnyway(line, src, resp) ==
    IF line.kind = "blank" THEN ParseErr("empty", 0, <<>>)
    ELSE LookupLoop(line, src, resp, 0)

ParseCard(line, src, resp) ==
    IF line.kind = "blank" THEN ParseErr("empty", 0, <<>>)
    ELSE IF line.kind = "bad" THEN ParseErr("parse", 0, <<>>)
    ELSE LookupLoop(line, src, resp, 0)

\* The (card, err) pairs ParseCard can return for a line, over every way
\* the catalog can answer its requests, with whether a request was made.
ParseCardResults(line, src) ==
    {[card |-> ParseCard(line, src, resp).card, err |-> ParseCard(line, src, resp).err,
      sent |-> ParseCard(line, src, resp).requests > 0] :
        resp \in [1..maxRetries -> MetaResponses]}

\* ------------------------------------------------------------------------
\* FetchImageWithRetry: resp[a+1] is what the request of attempt a comes
\* back with; the result is whether bytes were returned and the requests made.
\* ------------------------------------------------------------------------
RECURSIVE FetchLoop(_, _, _)
FetchLoop(resp, retries, a) ==
    IF a > retries THEN [ok |-> FALSE, requests |-> a]
    ELSE IF resp[a + 1] = "ok" THEN [ok |-> TRUE, requests |-> a + 1]
    ELSE FetchLoop(resp, retries, a + 1)

FetchImageWithRetry(resp, retries) == FetchLoop(resp, retries, 0)

\* Whether FetchImageWithRetry can return bytes / an error, over every way
\* the image host can answer its requests.
FetchResults(retries) ==
    {FetchImageWithRetry(resp, retries).ok : resp \in [1..retries + 1 -> ImageResponses]}

\* ------------------------------------------------------------------------
\* GeneratePDF's URI list. Ranging over the ImageURIs map visits its keys in
\* an order the runtime picks anew for every range statement: backFirst[k][q]
\* says whether the range for copy q of the k-th card starts at "back".
\* ------------------------------------------------------------------------
FaceOrder(card, flip) ==
    IF card.ImageURIs = {"front"} THEN <<"front">>
    ELSE IF flip THEN <<"back", "front">> ELSE <<"front", "back">>

RECURSIVE CopyURIs(_, _, _, _)
\* Variant: the quantity is ignored, every card gets one copy.
CopyURIs_OneCopy(card, k, q, backFirst) ==
    IF q > 1 THEN <<>>
    ELSE [i \in 1..Len(FaceOrder(card, backFirst[k][q])) |->
             [src |-> card.src, card |-> k, copy |-> q,
              face |-> FaceOrder(card, backFirst[k][q])[i]]]

CopyURIs(card, k, q, backFirst) ==
    IF q > card.Quantity THEN <<>>
    ELSE [i \in 1..Len(FaceOrder(card, backFirst[k][q])) |->
             [src |-> card.src, card |-> k, copy |-> q,
              face |-> FaceOrder(card, backFirst[k][q])[i]]]
         \o CopyURIs(card, k, q + 1, backFirst)

RECURSIVE AllURIs(_, _, _)
AllURIs(cs, k, backFirst) ==
    IF k > Len(cs) THEN <<>>
    ELSE CopyURIs(cs[k], k, 1, backFirst) \o AllURIs(cs, k + 1, backFirst)

\* ------------------------------------------------------------------------
\* GrimoireJob and its locked setters
\* ------------------------------------------------------------------------
NewGrimoireJob(id) ==
    [ID |-> id, Status |-> "queued", PDF |-> NilPDF, Error |-> NilError,
     CreatedAt |-> wall]

setStatus(j, status) == [j EXCEPT !.Status = status]

setError(j, err) == [j EXCEPT !.Error = err, !.Status = "error"]

setPDF(j, buf) == [j EXCEPT !.PDF = buf]

GetJob(id) == IF id \in DOMAIN jobs THEN [exists |-> TRUE, job |-> jobs[id]]
              ELSE [exists |-> FALSE, job |-> NewGrimoireJob(0)]

\* handleGetJobPDF: what the result endpoint answers for an id.
handleGetJobPDF(id) ==
    LET g == GetJob(id) IN
    IF ~g.exists THEN "NotFound"
    ELSE IF g.job.Error.set THEN "Failed"
    ELSE IF g.job.Status # "complete" THEN "NotReady"
    ELSE IF ~g.job.PDF.set THEN "PDFNotAvailable"
    ELSE "Document"

\* The zero Card the parser returns with an error.
NoFields == [Quantity |-> 0, Name |-> <<>>, Set |-> <<>>, CollectorNumber |-> <<>>]

Init ==
    /\ jobs = <<>>
    /\ queue = <<>>
    /\ pc = "idle"
    /\ task = [JobID |-> 0, Decklist |-> <<>>]
    /\ nonEmptyLines = <<>>
    /\ resolver = <<>>
    /\ attempt = <<>>
    /\ semaphore = 0
    /\ resultsChan = <<>>
    /\ chanClosed = FALSE
    /\ cards = <<>>
    /\ errors = <<>>
    /\ allURIs = <<>>
    /\ fetcher = <<>>
    /\ errs = <<>>
    /\ imageData = <<>>
    /\ pageIdx = 0
    /\ pdf = <<>>
    /\ statusHist = <<>>
    /\ imageFetches = 0
    /\ clock = BootTime
    /\ lastRequestTime = 0
    /\ rateLimiterMutex = 0
    /\ rlpc = [c \in Callers |-> "idle"]
    /\ now = [c \in Callers |-> 0]
    /\ returns = <<>>
    /\ lkpc = "idle"
    /\ lkLine = BadLine
    /\ lkAttempt = 0
    /\ lkSent = <<>>
    /\ lkResult = [card |-> NoCard, err |-> ""]
    /\ timedOut = FALSE
    /\ submitted = 0
    /\ creating = 0
    /\ rejected = {}
    /\ wall = 0
    /\ nextSweep = sweepInterval
    /\ requested = {}
    /\ metaStatus = {}
    /\ served = [req |-> <<>>, handler |-> "", code |-> 0, body |-> <<>>]
    /\ parsed = [called |-> FALSE, line |-> <<>>, want |-> NoFields, layout |-> "", faces |-> {},
                 ok |-> FALSE, card |-> NoFields]
    /\ fetchPc = "idle"
    /\ fetchAttempt = 0
    /\ fetchTrace = <<>>
    /\ fetchResult = [done |-> FALSE, ok |-> FALSE, bytes |-> 0]
    /\ workers = 0
    /\ running = <<>>
    /\ taken = <<>>

\* ------------------------------------------------------------------------
\* CreateJob: store the record, enqueue the task; when q.Queue refuses the
\* task the record is deleted again and the caller gets the error.
\* ------------------------------------------------------------------------
\* The history of the followed job's Status after a step on job id.
Tracked(id) ==
    IF id = JobID /\ JobID \in DOMAIN jobs'
    THEN Append(statusHist, jobs'[JobID].Status)
    ELSE statusHist

\* q.Queue returns an error: the queue holds queueSize tasks.
QueueFull == Len(queue) >= queueSize

\* NewGrimoireJob, jobs.Store, q.Queue.
\* Variant: the task is enqueued and the record is not stored.
CreateJob_NoStore(id, decklist) ==
    /\ UNCHANGED <<rlVars, lookupVars, timedOut, sweepVars, traceVars, served, sideVars, rejected>>
    /\ creating = 0
    /\ id = submitted + 1
    /\ submitted' = id
    /\ queue' = Append(queue, [JobID |-> id, Decklist |-> decklist])
    /\ UNCHANGED <<jobs, creating, statusHist>>
    /\ UNCHANGED <<pc, task, nonEmptyLines, resolveVars, pdfVars>>

\* Variant: the task is enqueued twice.
CreateJob_EnqueueTwice(id, decklist) ==
    /\ UNCHANGED <<rlVars, lookupVars, timedOut, sweepVars, traceVars, served, sideVars, rejected>>
    /\ creating = 0
    /\ id = submitted + 1
    /\ submitted' = id
    /\ jobs' = [k \in DOMAIN jobs \cup {id} |->
                  IF k = id THEN NewGrimoireJob(id) ELSE jobs[k]]
    /\ queue' = queue \o << [JobID |-> id, Decklist |-> decklist],
                            [JobID |-> id, Decklist |-> decklist] >>
    /\ UNCHANGED creating
    /\ statusHist' = Tracked(id)
    /\ UNCHANGED <<pc, task, nonEmptyLines, resolveVars, pdfVars>>

CreateJob(id, decklist) ==
    /\ UNCHANGED <<rlVars, lookupVars, timedOut, sweepVars, traceVars, served, sideVars, rejected>>
    /\ creating = 0
    /\ id = submitted + 1
    /\ submitted' = id
    /\ jobs' = [k \in DOMAIN jobs \cup {id} |->
                  IF k = id THEN NewGrimoireJob(id) ELSE jobs[k]]
    /\ IF QueueFull
       THEN /\ creating' = id
            /\ UNCHANGED queue
       ELSE /\ queue' = Append(queue, [JobID |-> id, Decklist |-> decklist])
            /\ UNCHANGED creating
    /\ statusHist' = Tracked(id)
    /\ UNCHANGED <<pc, task, nonEmptyLines, resolveVars, pdfVars>>

\* Variant: the record of a refused submission stays in the store.
CreateJobRollback_NoDelete ==
    /\ creating # 0
    /\ rejected' = rejected \cup {creating}
    /\ creating' = 0
    /\ UNCHANGED <<jobs, queue, pc, task, nonEmptyLines, resolveVars, pdfVars,
                   statusHist, submitted, rlVars, lookupVars, timedOut, sweepVars, traceVars, served, sideVars>>

\* jobs.Delete(jobInstance.ID); return nil, err
CreateJobRollback ==
    /\ creating # 0
    /\ jobs' = [k \in DOMAIN jobs \ {creating} |-> jobs[k]]
    /\ rejected' = rejected \cup {creating}
    /\ creating' = 0
    /\ UNCHANGED <<queue, pc, task, nonEmptyLines, resolveVars, pdfVars,
                   statusHist, submitted, rlVars, lookupVars, timedOut, sweepVars, traceVars, served, sideVars>>

\* ------------------------------------------------------------------------
\* ProcessDecklistHandler
\* ------------------------------------------------------------------------
\* Variant: the handler goes on without the job it did not find.
HandlerStart_NoLookup ==
    /\ UNCHANGED restVars
    /\ pc = "idle"
    /\ queue # <<>>
    /\ task' = Head(queue)
    /\ queue' = Tail(queue)
    /\ IF GetJob(Head(queue).JobID).exists
       THEN /\ jobs' = [jobs EXCEPT ![Head(queue).JobID] = setStatus(@, "parse")]
            /\ statusHist' = Tracked(Head(queue).JobID)
            /\ pc' = "filter"
       ELSE /\ pc' = "filter"
            /\ UNCHANGED <<jobs, statusHist>>
    /\ UNCHANGED <<nonEmptyLines, resolveVars, pdfVars>>

\* A worker takes the task; the handler looks the job up and sets "parse",
\* or returns an error when the store has no such job.
HandlerStart ==
    /\ UNCHANGED restVars
    /\ pc = "idle"
    /\ queue # <<>>
    /\ task' = Head(queue)
    /\ queue' = Tail(queue)
    /\ IF GetJob(Head(queue).JobID).exists
       THEN /\ jobs' = [jobs EXCEPT ![Head(queue).JobID] = setStatus(@, "parse")]
            /\ statusHist' = Tracked(Head(queue).JobID)
            /\ pc' = "filter"
       ELSE /\ pc' = "done"
            /\ UNCHANGED <<jobs, statusHist>>
    /\ UNCHANGED <<nonEmptyLines, resolveVars, pdfVars>>

IsNonEmpty(line) == line.kind # "blank"

\* Split and filter the lines; with none left the job is set "complete" and
\* the handler returns; otherwise one goroutine per line is started.
HandlerFilter ==
    /\ UNCHANGED restVars
    /\ pc = "filter"
    /\ LET kept == SelectSeq(task.Decklist, IsNonEmpty) IN
        /\ nonEmptyLines' = kept
        /\ IF Len(kept) = 0
           THEN /\ jobs' = [jobs EXCEPT ![task.JobID] = setStatus(@, "complete")]
                /\ statusHist' = Tracked(task.JobID)
                /\ pc' = "done"
                /\ UNCHANGED resolveVars
           ELSE /\ resolver' = [i \in 1..Len(kept) |-> "ready"]
                /\ attempt' = [i \in 1..Len(kept) |-> 0]
                /\ pc' = "collect"
                /\ UNCHANGED <<jobs, statusHist, semaphore, resultsChan, chanClosed,
                               cards, errors>>
    /\ UNCHANGED <<queue, task, pdfVars>>

\* semaphore <- struct{}{}
ResolveAcquire(i) ==
    /\ UNCHANGED restVars
    /\ pc = "collect"
    /\ i \in DOMAIN resolver
    /\ resolver[i] = "ready"
    /\ semaphore < maxConcurrent
    /\ semaphore' = semaphore + 1
    /\ resolver' = [resolver EXCEPT ![i] = "holding"]
    /\ UNCHANGED <<jobs, queue, pc, task, nonEmptyLines, attempt, resultsChan,
                   chanClosed, cards, errors, pdfVars, statusHist>>

\* Variant: the retry loop has no last try.
ResolveTry_NoLimit(i) ==
    /\ UNCHANGED <<rlVars, lookupVars, timedOut, poolVars, sweepVars, served, sideVars>>
    /\ pc = "collect"
    /\ i \in DOMAIN resolver
    /\ resolver[i] = "holding"
    /\ \E r \in ParseCardResults(nonEmptyLines[i], i) :
         /\ requested' = IF r.sent THEN requested \cup {i} ELSE requested
         /\ metaStatus' = IF r.sent /\ task.JobID \in DOMAIN jobs
                          THEN metaStatus \cup {jobs[task.JobID].Status}
                          ELSE metaStatus
         /\ IF r.err # ""
            THEN /\ attempt' = [attempt EXCEPT ![i] = @ + 1]
                 /\ UNCHANGED <<resolver, semaphore, resultsChan>>
            ELSE /\ resultsChan' =
                      Append(resultsChan,
                             [card |-> r.card, err |-> r.err,
                              wrapped |-> IF r.err = "" THEN <<>>
                                          ELSE <<FailedToParse(nonEmptyLines[i], r.err)>>])
                 /\ semaphore' = semaphore - 1
                 /\ resolver' = [resolver EXCEPT ![i] = "done"]
                 /\ attempt' = [attempt EXCEPT ![i] = 0]
    /\ UNCHANGED <<jobs, queue, pc, task, nonEmptyLines, chanClosed, cards, errors,
                   pdfVars, statusHist>>

\* Variant: the goroutine that sends a failure returns without releasing
\* the semaphore.
ResolveTry_KeepSlotOnError(i) ==
    /\ UNCHANGED <<rlVars, lookupVars, timedOut, poolVars, sweepVars, served, sideVars>>
    /\ pc = "collect"
    /\ i \in DOMAIN resolver
    /\ resolver[i] = "holding"
    /\ \E r \in ParseCardResults(nonEmptyLines[i], i) :
         /\ requested' = IF r.sent THEN requested \cup {i} ELSE requested
         /\ metaStatus' = IF r.sent /\ task.JobID \in DOMAIN jobs
                          THEN metaStatus \cup {jobs[task.JobID].Status}
                          ELSE metaStatus
         /\ IF r.err # "" /\ attempt[i] < handlerAttempts - 1
            THEN /\ attempt' = [attempt EXCEPT ![i] = @ + 1]
                 /\ UNCHANGED <<resolver, semaphore, resultsChan>>
            ELSE /\ resultsChan' =
                      Append(resultsChan,
                             [card |-> r.card, err |-> r.err,
                              wrapped |-> IF r.err = "" THEN <<>>
                                          ELSE <<FailedToParse(nonEmptyLines[i], r.err)>>])
                 /\ semaphore' = IF r.err = "" THEN semaphore - 1 ELSE semaphore
                 /\ resolver' = [resolver EXCEPT ![i] = "done"]
                 /\ attempt' = [attempt EXCEPT ![i] = 0]
    /\ UNCHANGED <<jobs, queue, pc, task, nonEmptyLines, chanClosed, cards, errors,
                   pdfVars, statusHist>>

\* One pass of the goroutine's retry loop: a ParseCard call; on success, or on
\* failure of the last try, the result is sent, the semaphore released and the
\* goroutine ends.
ResolveTry(i) ==
    /\ UNCHANGED <<rlVars, lookupVars, timedOut, poolVars, sweepVars, served, sideVars>>
    /\ pc = "collect"
    /\ i \in DOMAIN resolver
    /\ resolver[i] = "holding"
    /\ \E r \in ParseCardResults(nonEmptyLines[i], i) :
         /\ requested' = IF r.sent THEN requested \cup {i} ELSE requested
         /\ metaStatus' = IF r.sent /\ task.JobID \in DOMAIN jobs
                          THEN metaStatus \cup {jobs[task.JobID].Status}
                          ELSE metaStatus
         /\ IF r.err # "" /\ attempt[i] < handlerAttempts - 1
            THEN /\ attempt' = [attempt EXCEPT ![i] = @ + 1]
                 /\ UNCHANGED <<resolver, semaphore, resultsChan>>
            ELSE /\ resultsChan' =
                      Append(resultsChan,
                             [card |-> r.card, err |-> r.err,
                              wrapped |-> IF r.err = "" THEN <<>>
                                          ELSE <<FailedToParse(nonEmptyLines[i], r.err)>>])
                 /\ semaphore' = semaphore - 1
                 /\ resolver' = [resolver EXCEPT ![i] = "done"]
                 /\ attempt' = [attempt EXCEPT ![i] = 0]
    /\ UNCHANGED <<jobs, queue, pc, task, nonEmptyLines, chanClosed, cards, errors,
                   pdfVars, statusHist>>

\* Variant: the channel is closed as soon as one goroutine has finished.
CloseResults_Early ==
    /\ UNCHANGED restVars
    /\ pc = "collect"
    /\ ~chanClosed
    /\ \E i \in DOMAIN resolver : resolver[i] = "done"
    /\ chanClosed' = TRUE
    /\ UNCHANGED <<jobs, queue, pc, task, nonEmptyLines, resolver, attempt, semaphore,
                   resultsChan, cards, errors, pdfVars, statusHist>>

\* go func() { wg.Wait(); close(resultsChan) }()
CloseResults ==
    /\ UNCHANGED restVars
    /\ pc = "collect"
    /\ ~chanClosed
    /\ \A i \in DOMAIN resolver : resolver[i] = "done"
    /\ chanClosed' = TRUE
    /\ UNCHANGED <<jobs, queue, pc, task, nonEmptyLines, resolver, attempt, semaphore,
                   resultsChan, cards, errors, pdfVars, statusHist>>

\* for res := range resultsChan: one receive.
Collect ==
    /\ UNCHANGED restVars
    /\ pc = "collect"
    /\ resultsChan # <<>>
    /\ resultsChan' = Tail(resultsChan)
    /\ IF Head(resultsChan).err # ""
       THEN errors' = Append(errors, Head(resultsChan).wrapped[1]) /\ UNCHANGED cards
       ELSE cards' = Append(cards, Head(resultsChan).card) /\ UNCHANGED errors
    /\ UNCHANGED <<jobs, queue, pc, task, nonEmptyLines, resolver, attempt, semaphore,
                   chanClosed, pdfVars, statusHist>>

\* Variant: the handler goes from "parse" straight to "generate".
CollectDone_SkipFetch ==
    /\ UNCHANGED restVars
    /\ pc = "collect"
    /\ resultsChan = <<>>
    /\ chanClosed
    /\ IF Len(errors) > 0
       THEN /\ jobs' = [jobs EXCEPT ![task.JobID] = setError(@, Encountered(errors))]
            /\ pc' = "done"
       ELSE /\ jobs' = [jobs EXCEPT ![task.JobID] = setStatus(@, "generate")]
            /\ pc' = "uris"
    /\ statusHist' = Tracked(task.JobID)
    /\ UNCHANGED <<queue, task, nonEmptyLines, resolveVars, pdfVars>>

\* Variant: the return after setError is missing.
CollectDone_NoReturn ==
    /\ UNCHANGED restVars
    /\ pc = "collect"
    /\ resultsChan = <<>>
    /\ chanClosed
    /\ IF Len(errors) > 0
       THEN /\ jobs' = [jobs EXCEPT ![task.JobID] = setError(@, Encountered(errors))]
            /\ pc' = "setgenerate"
       ELSE /\ jobs' = [jobs EXCEPT ![task.JobID] = setStatus(@, "fetch")]
            /\ pc' = "setgenerate"
    /\ statusHist' = Tracked(task.JobID)
    /\ UNCHANGED <<queue, task, nonEmptyLines, resolveVars, pdfVars>>

\* Variant: the job is failed only when no line at all was resolved.
CollectDone_OnlyAllFailed ==
    /\ UNCHANGED restVars
    /\ pc = "collect"
    /\ resultsChan = <<>>
    /\ chanClosed
    /\ IF Len(cards) = 0
       THEN /\ jobs' = [jobs EXCEPT ![task.JobID] = setError(@, Encountered(errors))]
            /\ pc' = "done"
       ELSE /\ jobs' = [jobs EXCEPT ![task.JobID] = setStatus(@, "fetch")]
            /\ pc' = "setgenerate"
    /\ statusHist' = Tracked(task.JobID)
    /\ UNCHANGED <<queue, task, nonEmptyLines, resolveVars, pdfVars>>

\* The range loop ends on the closed, drained channel; with errors the job is
\* failed and the handler returns, otherwise it sets "fetch".
CollectDone ==
    /\ UNCHANGED restVars
    /\ pc = "collect"
    /\ resultsChan = <<>>
    /\ chanClosed
    /\ IF Len(errors) > 0
       THEN /\ jobs' = [jobs EXCEPT ![task.JobID] = setError(@, Encountered(errors))]
            /\ pc' = "done"
       ELSE /\ jobs' = [jobs EXCEPT ![task.JobID] = setStatus(@, "fetch")]
            /\ pc' = "setgenerate"
    /\ statusHist' = Tracked(task.JobID)
    /\ UNCHANGED <<queue, task, nonEmptyLines, resolveVars, pdfVars>>

HandlerSetGenerate ==
    /\ UNCHANGED restVars
    /\ pc = "setgenerate"
    /\ jobs' = [jobs EXCEPT ![task.JobID] = setStatus(@, "generate")]
    /\ statusHist' = Tracked(task.JobID)
    /\ pc' = "uris"
    /\ UNCHANGED <<queue, task, nonEmptyLines, resolveVars, pdfVars>>

\* ------------------------------------------------------------------------
\* GeneratePDF
\* ------------------------------------------------------------------------
\* Build allURIs from the cards; size the result arrays and start one fetch
\* goroutine per index (none when the list is empty).
GenURIs ==
    /\ UNCHANGED restVars
    /\ pc = "uris"
    /\ \E backFirst \in [1..Len(cards) -> [1..MaxQty -> BOOLEAN]] :
         allURIs' = AllURIs(cards, 1, backFirst)
    /\ fetcher' = [i \in 1..Len(allURIs') |-> "run"]
    /\ errs' = [i \in 1..Len(allURIs') |-> FALSE]
    /\ imageData' = [i \in 1..Len(allURIs') |-> FALSE]
    /\ pc' = "fetchwait"
    /\ UNCHANGED <<jobs, queue, task, nonEmptyLines, resolveVars, pageIdx, pdf,
                   statusHist, imageFetches>>

\* Variant: a goroutine stores its outcome in the first slot no goroutine
\* has filled yet, as appending to a shared slice would.
FetchImage_NextFree(i) ==
    /\ UNCHANGED restVars
    /\ pc = "fetchwait"
    /\ i \in DOMAIN fetcher
    /\ fetcher[i] = "run"
    /\ LET slot == Cardinality({j \in DOMAIN fetcher : fetcher[j] = "done"}) + 1 IN
       \E ok \in FetchResults(imageRetries) :
         /\ errs' = [errs EXCEPT ![slot] = ~ok]
         /\ imageData' = [imageData EXCEPT ![slot] = ok]
    /\ imageFetches' = imageFetches + 1
    /\ fetcher' = [fetcher EXCEPT ![i] = "done"]
    /\ UNCHANGED <<jobs, queue, pc, task, nonEmptyLines, resolveVars, allURIs,
                   pageIdx, pdf, statusHist>>

\* The goroutine of index i: FetchImageWithRetry(uri, 2), then its own slot
\* of errs or imageData.
FetchImage(i) ==
    /\ UNCHANGED restVars
    /\ pc = "fetchwait"
    /\ i \in DOMAIN fetcher
    /\ fetcher[i] = "run"
    /\ \E ok \in FetchResults(imageRetries) :
         /\ errs' = [errs EXCEPT ![i] = ~ok]
         /\ imageData' = [imageData EXCEPT ![i] = ok]
    /\ imageFetches' = imageFetches + 1
    /\ fetcher' = [fetcher EXCEPT ![i] = "done"]
    /\ UNCHANGED <<jobs, queue, pc, task, nonEmptyLines, resolveVars, allURIs,
                   pageIdx, pdf, statusHist>>

\* Variant: a failed fetch fails the job.
GenWait_FailFast ==
    /\ UNCHANGED restVars
    /\ pc = "fetchwait"
    /\ \A i \in DOMAIN fetcher : fetcher[i] = "done"
    /\ IF \E i \in DOMAIN errs : errs[i]
       THEN /\ jobs' = [jobs EXCEPT ![task.JobID] = setError(@, Errorf("fetch", 1))]
            /\ statusHist' = Tracked(task.JobID)
            /\ pc' = "done"
            /\ UNCHANGED pageIdx
       ELSE /\ pageIdx' = 1
            /\ pc' = "pages"
            /\ UNCHANGED <<jobs, statusHist>>
    /\ UNCHANGED <<queue, task, nonEmptyLines, resolveVars, allURIs, fetcher,
                   errs, imageData, pdf, imageFetches>>

\* wg.Wait() returns once every fetch goroutine has ended.
GenWait ==
    /\ UNCHANGED restVars
    /\ pc = "fetchwait"
    /\ \A i \in DOMAIN fetcher : fetcher[i] = "done"
    /\ pageIdx' = 1
    /\ pc' = "pages"
    /\ UNCHANGED <<jobs, queue, task, nonEmptyLines, resolveVars, allURIs, fetcher,
                   errs, imageData, pdf, statusHist, imageFetches>>

\* Variant: the page is added only once the image has been converted and
\* embedded.
GenPage_AfterConvert ==
    /\ UNCHANGED restVars
    /\ pc = "pages"
    /\ pageIdx <= Len(allURIs)
    /\ IF errs[pageIdx]
       THEN UNCHANGED pdf
       ELSE \E drawn \in BOOLEAN :
              pdf' = IF drawn
                     THEN Append(pdf, [uri |-> allURIs[pageIdx], index |-> pageIdx,
                                       image |-> drawn])
                     ELSE pdf
    /\ pageIdx' = pageIdx + 1
    /\ UNCHANGED <<jobs, queue, pc, task, nonEmptyLines, resolveVars, allURIs, fetcher,
                   errs, imageData, statusHist, imageFetches>>

\* One pass of the page loop: a failed index is skipped; otherwise a page is
\* added and filled, and the image is drawn on it unless converting or
\* embedding it fails.
GenPage ==
    /\ UNCHANGED restVars
    /\ pc = "pages"
    /\ pageIdx <= Len(allURIs)
    /\ IF errs[pageIdx]
       THEN UNCHANGED pdf
       ELSE \E drawn \in BOOLEAN :
              pdf' = Append(pdf, [uri |-> allURIs[pageIdx], index |-> pageIdx,
                                  image |-> drawn])
    /\ pageIdx' = pageIdx + 1
    /\ UNCHANGED <<jobs, queue, pc, task, nonEmptyLines, resolveVars, allURIs, fetcher,
                   errs, imageData, statusHist, imageFetches>>

\* Variant: the buffer GeneratePDF returns is not stored.
GenWriteOk_NoSetPDF ==
    /\ UNCHANGED restVars
    /\ pc = "pages"
    /\ pageIdx > Len(allURIs)
    /\ pc' = "setcomplete"
    /\ UNCHANGED <<jobs, queue, task, nonEmptyLines, resolveVars, pdfVars, statusHist>>

\* pdf.WriteTo succeeds: GeneratePDF returns the buffer and the handler
\* stores it with setPDF.
GenWriteOk ==
    /\ UNCHANGED restVars
    /\ pc = "pages"
    /\ pageIdx > Len(allURIs)
    /\ jobs' = [jobs EXCEPT ![task.JobID] = setPDF(@, Buffer(pdf))]
    /\ pc' = "setcomplete"
    /\ UNCHANGED <<queue, task, nonEmptyLines, resolveVars, pdfVars, statusHist>>

\* pdf.WriteTo fails: GeneratePDF returns the error and the handler fails
\* the job.
GenWriteFail ==
    /\ UNCHANGED restVars
    /\ pc = "pages"
    /\ pageIdx > Len(allURIs)
    /\ jobs' = [jobs EXCEPT ![task.JobID] = setError(@, Errorf("pdf", 1))]
    /\ statusHist' = Tracked(task.JobID)
    /\ pc' = "done"
    /\ UNCHANGED <<queue, task, nonEmptyLines, resolveVars, pdfVars>>

HandlerSetComplete ==
    /\ UNCHANGED restVars
    /\ pc = "setcomplete"
    /\ jobs' = [jobs EXCEPT ![task.JobID] = setStatus(@, "complete")]
    /\ statusHist' = Tracked(task.JobID)
    /\ pc' = "done"
    /\ UNCHANGED <<queue, task, nonEmptyLines, resolveVars, pdfVars>>

Next ==
    \/ \E d \in Decklists : CreateJob(JobID, d)
    \/ HandlerStart
    \/ HandlerFilter
    \/ \E i \in 1..MaxLines : ResolveAcquire(i)
    \/ \E i \in 1..MaxLines : ResolveTry(i)
    \/ CloseResults
    \/ Collect
    \/ CollectDone
    \/ HandlerSetGenerate
    \/ GenURIs
    \/ \E i \in 1..(2 * MaxCopies) : FetchImage(i)
    \/ GenWait
    \/ GenPage
    \/ GenWriteOk
    \/ GenWriteFail
    \/ HandlerSetComplete

Spec == Init /\ [][Next]_vars

\* ------------------------------------------------------------------------
\* The task's deadline. CreateJob enqueues the task with a timeout of
\* taskTimeout minutes, which the queue turns into the deadline of the ctx it
\* hands to the handler; the handler never reads ctx, so the deadline passing
\* changes nothing the handler sees.
\* ------------------------------------------------------------------------
TaskDeadline ==
    /\ pc \notin {"idle", "done"}
    /\ ~timedOut
    /\ timedOut' = TRUE
    /\ UNCHANGED <<jobVars, rlVars, lookupVars, poolVars, sweepVars, traceVars, served, sideVars>>

NextDeadline ==
    \/ Next
    \/ TaskDeadline

SpecDeadline == Init /\ [][NextDeadline]_vars

\* The handler with its goroutines scheduled: a step that can be taken is
\* eventually taken (every request returns, every sleep ends).
SpecLive == Spec /\ WF_vars(Next)

\* ------------------------------------------------------------------------
\* The queue and the store under many submissions. Every submission is the
\* decklist of one blank line, which the handler completes at once, and one
\* worker of the pool is followed.
\* ------------------------------------------------------------------------
\* processWrapper returns; the worker is free for the next task.
\* Variant: the cleanup after completion that processWrapper has commented
\* out is enabled.
WorkerReturn_Cleanup ==
    /\ UNCHANGED restVars
    /\ pc = "done"
    /\ pc' = "idle"
    /\ jobs' = [k \in DOMAIN jobs \ {task.JobID} |-> jobs[k]]
    /\ UNCHANGED <<queue, task, nonEmptyLines, resolveVars, pdfVars, statusHist>>

\* The handler's locals are gone with its return; the next call of the
\* handler starts with fresh ones.
WorkerReturn ==
    /\ UNCHANGED restVars
    /\ pc = "done"
    /\ pc' = "idle"
    /\ nonEmptyLines' = <<>>
    /\ resolver' = <<>>
    /\ attempt' = <<>>
    /\ semaphore' = 0
    /\ resultsChan' = <<>>
    /\ chanClosed' = FALSE
    /\ cards' = <<>>
    /\ errors' = <<>>
    /\ allURIs' = <<>>
    /\ fetcher' = <<>>
    /\ errs' = <<>>
    /\ imageData' = <<>>
    /\ pageIdx' = 0
    /\ pdf' = <<>>
    /\ UNCHANGED <<jobs, queue, task, statusHist, imageFetches>>

NextQueue ==
    \/ \E id \in 1..MaxSubmissions : CreateJob(id, <<BlankLine>>)
    \/ CreateJobRollback
    \/ HandlerStart
    \/ HandlerFilter
    \/ WorkerReturn

SpecQueue == Init /\ [][NextQueue]_vars

\* ------------------------------------------------------------------------
\* cleanupJobs under a wall clock: the ticker, and on every tick one pass
\* over the store.
\* ------------------------------------------------------------------------
\* time.Since(j.CreatedAt)
Age(j) == wall - j.CreatedAt

\* Variant: a job whose age equals the retention window is deleted too.
Expired_AtLeast(j) == Age(j) >= retention

\* time.Since(j.CreatedAt) > 1*time.Hour
Expired(j) == Age(j) > retention

\* Variant: a cycle empties the store.
cleanupJobs_All ==
    /\ wall >= nextSweep
    /\ nextSweep' = nextSweep + sweepInterval
    /\ jobs' = <<>>
    /\ UNCHANGED <<queue, pc, task, nonEmptyLines, resolveVars, pdfVars, statusHist,
                   wall, rlVars, lookupVars, timedOut, poolVars, traceVars, served, sideVars>>

\* One cycle: jobs.Range collects the expired ids, jobs.Delete removes them.
cleanupJobs ==
    /\ wall >= nextSweep
    /\ nextSweep' = nextSweep + sweepInterval
    /\ jobs' = [k \in {id \in DOMAIN jobs : ~Expired(jobs[id])} |-> jobs[k]]
    /\ UNCHANGED <<queue, pc, task, nonEmptyLines, resolveVars, pdfVars, statusHist,
                   wall, rlVars, lookupVars, timedOut, poolVars, traceVars, served, sideVars>>

\* Time passes, tick minutes at a time.
WallTime(tick, stop) ==
    /\ wall < stop
    /\ wall' = wall + tick
    /\ UNCHANGED <<jobVars, nextSweep, rlVars, lookupVars, timedOut, poolVars, traceVars, served, sideVars>>

NextSweep ==
    \/ \E id \in 1..SweepJobs : CreateJob(id, <<BlankLine>>)
    \/ HandlerStart
    \/ HandlerFilter
    \/ WorkerReturn
    \/ cleanupJobs
    \/ WallTime(WallTick, MaxWall)

SpecSweep == Init /\ [][NextSweep]_vars

\* ------------------------------------------------------------------------
\* Everything that stores or deletes a record: CreateJob with its rollback
\* and the sweeper, while the workers are busy and the tasks stay queued.
\* ------------------------------------------------------------------------
NextStore ==
    \/ \E id \in 1..MaxSubmissions : CreateJob(id, <<BlankLine>>)
    \/ CreateJobRollback
    \/ cleanupJobs
    \/ WallTime(StoreTick, StoreStop)

SpecStore == Init /\ [][NextStore]_vars

\* ------------------------------------------------------------------------
\* The API server: SetupRoutes and the GET handlers, next to a worker that
\* processes the submitted jobs. A path is its sequence of segments; a
\* segment is a literal or a job id (0: an id no job has).
\* ------------------------------------------------------------------------
Lit(s) == [lit |-> s, id |-> 0]
IdSeg(n) == [lit |-> "", id |-> n]
Param == [lit |-> ":id", id |-> 0]

\* SetupRoutes: the routes in their registration order.
Routes ==
    << [method |-> "POST", pattern |-> <<Lit("api"), Lit("submit")>>, handler |-> "handleSubmit"],
       [method |-> "GET", pattern |-> <<Lit("api"), Param>>, handler |-> "handleGetJob"],
       [method |-> "GET", pattern |-> <<Lit("api"), Param, Lit("pdf")>>, handler |-> "handleGetJobPDF"],
       [method |-> "GET", pattern |-> <<Lit("api"), Lit("jobs")>>, handler |-> "handleGetAllJobs"] >>

\* A pattern matches a path of the same length whose segments equal its
\* literals; a parameter takes any segment.
Matches(route, req) ==
    /\ route.method = req.method
    /\ Len(route.pattern) = Len(req.path)
    /\ \A k \in 1..Len(req.path) :
         route.pattern[k] = Param \/ route.pattern[k] = req.path[k]

\* The handler of the first registered route that matches.
Route(req) ==
    LET hits == {k \in 1..Len(Routes) : Matches(Routes[k], req)} IN
    IF hits = {} THEN "NotFound"
    ELSE Routes[CHOOSE k \in hits : \A h \in hits : k <= h].handler

GetRequests ==
    {[method |-> "GET", path |-> <<Lit("api"), Lit("jobs")>>]}
    \cup {[method |-> "GET", path |-> <<Lit("api"), IdSeg(n)>>] : n \in 0..ApiJobs}
    \cup {[method |-> "GET", path |-> <<Lit("api"), IdSeg(n), Lit("pdf")>>] : n \in 0..ApiJobs}

\* GetStatus: the status snapshot of a job.
GetStatus(j) == [status |-> j.Status, error |-> j.Error.set]

\* handleGetJob
handleGetJob(id) ==
    IF ~GetJob(id).exists THEN [code |-> 404, body |-> <<>>]
    ELSE [code |-> 200, body |-> [k \in {id} |-> GetStatus(jobs[id])]]

\* handleGetAllJobs
handleGetAllJobs == [code |-> 200, body |-> [k \in DOMAIN jobs |-> GetStatus(jobs[k])]]

\* The status code handleGetJobPDF answers with.
PDFCode(answer) ==
    IF answer = "NotFound" THEN 404
    ELSE IF answer = "NotReady" THEN 400
    ELSE IF answer = "Document" THEN 200
    ELSE 500

\* The server answers one GET request: it reads, and writes nothing.
Serve(req) ==
    /\ LET h == Route(req)
           id == req.path[2].id
           answer ==
             IF h = "handleGetAllJobs" THEN handleGetAllJobs
             ELSE IF h = "handleGetJob" THEN handleGetJob(id)
             ELSE IF h = "handleGetJobPDF"
             THEN [code |-> PDFCode(handleGetJobPDF(id)), body |-> <<>>]
             ELSE [code |-> 404, body |-> <<>>]
       IN served' = [req |-> req, handler |-> h, code |-> answer.code, body |-> answer.body]
    /\ UNCHANGED <<jobVars, rlVars, lookupVars, timedOut, poolVars, sweepVars, traceVars, sideVars>>

ApiDecklists == {<<BlankLine>>, <<BadLine>>, <<CardLine(1)>>}

NextAPI ==
    \/ \E id \in 1..ApiJobs : \E d \in ApiDecklists : CreateJob(id, d)
    \/ HandlerStart
    \/ HandlerFilter
    \/ \E i \in 1..MaxLines : ResolveAcquire(i)
    \/ \E i \in 1..MaxLines : ResolveTry(i)
    \/ CloseResults
    \/ Collect
    \/ CollectDone
    \/ HandlerSetGenerate
    \/ GenURIs
    \/ \E i \in 1..(2 * MaxCopies) : FetchImage(i)
    \/ GenWait
    \/ GenPage
    \/ GenWriteOk
    \/ GenWriteFail
    \/ HandlerSetComplete
    \/ WorkerReturn
    \/ \E req \in GetRequests : Serve(req)

SpecAPI == Init /\ [][NextAPI]_vars

\* ------------------------------------------------------------------------
\* One job, the whole handler, and the sweeper: the clock may pass the
\* retention window before the worker takes the task, or while it runs.
\* ------------------------------------------------------------------------
NextEvict ==
    \/ \E d \in ApiDecklists : CreateJob(JobID, d)
    \/ HandlerStart
    \/ HandlerFilter
    \/ \E i \in 1..MaxLines : ResolveAcquire(i)
    \/ \E i \in 1..MaxLines : ResolveTry(i)
    \/ CloseResults
    \/ Collect
    \/ CollectDone
    \/ HandlerSetGenerate
    \/ GenURIs
    \/ \E i \in 1..(2 * MaxCopies) : FetchImage(i)
    \/ GenWait
    \/ GenPage
    \/ GenWriteOk
    \/ GenWriteFail
    \/ HandlerSetComplete
    \/ WorkerReturn
    \/ cleanupJobs
    \/ WallTime(StoreTick, StoreStop)

SpecEvict == Init /\ [][NextEvict]_vars

\* ------------------------------------------------------------------------
\* The text of a line: ParseCard's regular expressions and field extraction.
\* A line is a sequence of characters.
\* ------------------------------------------------------------------------
IsDigit(c) == c \in {"0", "1", "2", "3", "4", "5", "6", "7", "8", "9"}
IsSpace(c) == c \in {" ", "\t", "\n", "\r", "\f"}

\* The character classes of the two expressions.
InClass(class, c) ==
    CASE class = "\\d" -> IsDigit(c)
      [] class = "\\s" -> IsSpace(c)
      [] class = "." -> c # "\n"
      [] class = "\\(" -> c = "("
      [] class = "\\)" -> c = ")"
      [] class = "[^)]" -> c # ")"
      [] class = "[^\\s\\r\\n]" -> ~IsSpace(c)

Piece(class, rep, lazy) == [class |-> class, rep |-> rep, lazy |-> lazy]

\* ^(\d+)\s+(.+?)\s+\(([^)]+)\)\s+([^\s\r\n]+)$
re ==
    << Piece("\\d", TRUE, FALSE), Piece("\\s", TRUE, FALSE), Piece(".", TRUE, TRUE),
       Piece("\\s", TRUE, FALSE), Piece("\\(", FALSE, FALSE), Piece("[^)]", TRUE, FALSE),
       Piece("\\)", FALSE, FALSE), Piece("\\s", TRUE, FALSE),
       Piece("[^\\s\\r\\n]", TRUE, FALSE) >>

\* ^(\d+)\s+(.+?)\s+\(([^)]+)\)\s+(.+)$
fallbackRe ==
    << Piece("\\d", TRUE, FALSE), Piece("\\s", TRUE, FALSE), Piece(".", TRUE, TRUE),
       Piece("\\s", TRUE, FALSE), Piece("\\(", FALSE, FALSE), Piece("[^)]", TRUE, FALSE),
       Piece("\\)", FALSE, FALSE), Piece("\\s", TRUE, FALSE), Piece(".", TRUE, FALSE) >>

\* The match a backtracking engine finds first, which is the one the regexp
\* package reports: piece k takes line[pos..e]; a greedy piece prefers the
\* longest run after which the rest still matches, a lazy one the shortest.
RECURSIVE MatchFrom(_, _, _, _)
MatchFrom(line, pieces, k, pos) ==
    IF k > Len(pieces)
    THEN [ok |-> pos = Len(line) + 1, ends |-> <<>>]
    ELSE LET p == pieces[k]
             runs == {e \in pos..Len(line) :
                        /\ \A j \in pos..e : InClass(p.class, line[j])
                        /\ p.rep \/ e = pos}
             good == {e \in runs : MatchFrom(line, pieces, k + 1, e + 1).ok}
         IN IF good = {} THEN [ok |-> FALSE, ends |-> <<>>]
            ELSE LET e == IF p.lazy
                          THEN CHOOSE x \in good : \A y \in good : x <= y
                          ELSE CHOOSE x \in good : \A y \in good : x >= y
                 IN [ok |-> TRUE,
                     ends |-> <<e>> \o MatchFrom(line, pieces, k + 1, e + 1).ends]

\* FindStringSubmatch: <<>> for nil, else the four groups.
FindStringSubmatch(pieces, line) ==
    LET m == MatchFrom(line, pieces, 1, 1) IN
    IF ~m.ok THEN <<>>
    ELSE << SubSeq(line, 1, m.ends[1]),
            SubSeq(line, m.ends[2] + 1, m.ends[3]),
            SubSeq(line, m.ends[5] + 1, m.ends[6]),
            SubSeq(line, m.ends[8] + 1, m.ends[9]) >>

\* strings.TrimSpace
RECURSIVE TrimSpace(_)
TrimSpace(str) ==
    IF str = <<>> THEN <<>>
    ELSE IF IsSpace(str[1]) THEN TrimSpace(Tail(str))
    ELSE IF IsSpace(str[Len(str)]) THEN TrimSpace(SubSeq(str, 1, Len(str) - 1))
    ELSE str

DigitValue(c) ==
    CASE c = "0" -> 0 [] c = "1" -> 1 [] c = "2" -> 2 [] c = "3" -> 3 [] c = "4" -> 4
      [] c = "5" -> 5 [] c = "6" -> 6 [] c = "7" -> 7 [] c = "8" -> 8 [] c = "9" -> 9

\* strconv.Atoi on a run of digits.
RECURSIVE Atoi(_)
Atoi(ds) ==
    IF ds = <<>> THEN 0
    ELSE 10 * Atoi(SubSeq(ds, 1, Len(ds) - 1)) + DigitValue(ds[Len(ds)])

\* ParseCard up to the Card it builds before the lookup.
ParseFields(text) ==
    LET line == TrimSpace(text)
        strict == FindStringSubmatch(re, line)
        loose == FindStringSubmatch(fallbackRe, line)
        matches == IF strict # <<>> THEN strict
                   ELSE IF loose # <<>> THEN [loose EXCEPT ![4] = TrimSpace(loose[4])]
                   ELSE <<>>
    IN IF line = <<>> \/ matches = <<>> THEN [ok |-> FALSE, card |-> NoFields]
       ELSE [ok |-> TRUE,
             card |-> [Quantity |-> Atoi(matches[1]), Name |-> TrimSpace(matches[2]),
                       Set |-> matches[3], CollectorNumber |-> matches[4]]]

\* The texts the parser is given: lines of the form
\* <quantity> <name> (<set code>) <collector number>, and some that are not.
QuantityTexts == {<<"4">>, <<"1", "2">>}
NameChars == {"a", " ", "(", ")"}
Names ==
    {n \in UNION {[1..k -> NameChars] : k \in 1..MaxName} : TrimSpace(n) = n}
SetCodes == {<<"l", "e", "a">>}
CollectorNumbers == {<<"1", "6", "2">>, <<"7", "a">>}
FormLine(q, n, s, c) == q \o <<" ">> \o n \o <<" ", "(">> \o s \o <<")", " ">> \o c
OtherLines ==
    { <<>>, <<" ">>, <<"a">>, <<"4", " ", "a">>,
      FormLine(<<"4">>, <<"a">>, <<"l", "e", "a">>, <<"1", " ", "a">>),
      <<" ">> \o FormLine(<<"4">>, <<"a">>, <<"l", "e", "a">>, <<"7">>) \o <<" ">>,
      FormLine(<<"0">>, <<"a">>, <<"l", "e", "a">>, <<"1", "6", "2">>),
      FormLine(<<"0", "0">>, <<"a">>, <<"l", "e", "a">>, <<"7">>) }

\* One call of the parser is followed. A line of the stated form is parsed, and the faces of the card the
\* catalog answers with are derived from its layout.
ParseLine(q, n, s, c, layout) ==
    /\ ~parsed.called
    /\ parsed' = [called |-> TRUE, line |-> FormLine(q, n, s, c),
                  want |-> [Quantity |-> Atoi(q), Name |-> n, Set |-> s, CollectorNumber |-> c],
                  layout |-> layout,
                  faces |-> FaceKeys(layout)]
                 @@ ParseFields(FormLine(q, n, s, c))
    /\ UNCHANGED <<jobVars, rlVars, lookupVars, timedOut, poolVars, sweepVars, traceVars,
                   served, fetchVars, workerVars>>

\* A line that is not of the form is parsed.
ParseOther(text) ==
    /\ ~parsed.called
    /\ parsed' = [called |-> TRUE, line |-> text, want |-> NoFields, layout |-> "", faces |-> {}]
                 @@ ParseFields(text)
    /\ UNCHANGED <<jobVars, rlVars, lookupVars, timedOut, poolVars, sweepVars, traceVars,
                   served, fetchVars, workerVars>>

NextParse ==
    \/ \E q \in QuantityTexts, n \in Names, s \in SetCodes, c \in CollectorNumbers,
          layout \in Layouts : ParseLine(q, n, s, c, layout)
    \/ \E text \in OtherLines : ParseOther(text)

SpecParse == Init /\ [][NextParse]_vars

\* ------------------------------------------------------------------------
\* One FetchImageWithRetry(uri, imageRetries) call, statement by statement.
\* fetchTrace records its sleeps, its rateLimitWait calls and its requests;
\* the body of the k-th request is written k.
\* ------------------------------------------------------------------------
Slept(d) == [ev |-> "sleep", d |-> d, resp |-> "", attempt |-> fetchAttempt]
Limited == [ev |-> "limiter", d |-> 0, resp |-> "", attempt |-> fetchAttempt]
Requested(resp) == [ev |-> "request", d |-> 0, resp |-> resp, attempt |-> fetchAttempt]
ImageRequests == SelectSeq(fetchTrace, LAMBDA e : e.ev = "request")

\* go func(idx int, uri string) { FetchImageWithRetry(uri, 2) }
FetchStart ==
    /\ fetchPc = "idle"
    /\ fetchPc' = "top"
    /\ UNCHANGED <<fetchAttempt, fetchTrace, fetchResult, nonFetchVars>>

\* Variant: the loop runs while attempt < maxRetries.
FetchTop_OneFewer ==
    /\ fetchPc = "top"
    /\ IF fetchAttempt >= imageRetries
       THEN /\ fetchResult' = [done |-> TRUE, ok |-> FALSE, bytes |-> 0]
            /\ fetchPc' = "done"
            /\ UNCHANGED fetchTrace
       ELSE /\ fetchTrace' = IF fetchAttempt > 0
                             THEN Append(fetchTrace, Slept(imageBaseDelay * 2^(fetchAttempt - 1)))
                             ELSE fetchTrace
            /\ fetchPc' = "limit"
            /\ UNCHANGED fetchResult
    /\ UNCHANGED <<fetchAttempt, nonFetchVars>>

\* The loop condition attempt <= maxRetries, the error returned when it
\* fails, and the backoff sleep that opens every pass but the first.
FetchTop ==
    /\ fetchPc = "top"
    /\ IF fetchAttempt > imageRetries
       THEN /\ fetchResult' = [done |-> TRUE, ok |-> FALSE, bytes |-> 0]
            /\ fetchPc' = "done"
            /\ UNCHANGED fetchTrace
       ELSE /\ fetchTrace' = IF fetchAttempt > 0
                             THEN Append(fetchTrace, Slept(imageBaseDelay * 2^(fetchAttempt - 1)))
                             ELSE fetchTrace
            /\ fetchPc' = "limit"
            /\ UNCHANGED fetchResult
    /\ UNCHANGED <<fetchAttempt, nonFetchVars>>

\* rateLimitWait()
FetchLimit ==
    /\ fetchPc = "limit"
    /\ fetchTrace' = Append(fetchTrace, Limited)
    /\ fetchPc' = "get"
    /\ UNCHANGED <<fetchAttempt, fetchResult, nonFetchVars>>

\* Variant: a 429 is followed by no sleep of its own.
FetchGet_NoThrottleSleep(resp) ==
    /\ fetchPc = "get"
    /\ fetchTrace' = Append(fetchTrace, Requested(resp))
    /\ IF resp = "ok"
       THEN /\ fetchResult' = [done |-> TRUE, ok |-> TRUE, bytes |-> Len(ImageRequests) + 1]
            /\ fetchPc' = "done"
            /\ UNCHANGED fetchAttempt
       ELSE /\ fetchAttempt' = fetchAttempt + 1
            /\ fetchPc' = "top"
            /\ UNCHANGED fetchResult
    /\ UNCHANGED nonFetchVars

\* http.Get and what follows it in the pass: a failure of whatever kind
\* continues the loop, a 429 on a pass that is not the last sleeps first;
\* a body that was read is returned.
FetchGet(resp) ==
    /\ fetchPc = "get"
    /\ fetchTrace' =
         IF resp = "throttle" /\ fetchAttempt < imageRetries
         THEN fetchTrace \o <<Requested(resp), Slept(imageThrottleDelay * 2^fetchAttempt)>>
         ELSE Append(fetchTrace, Requested(resp))
    /\ IF resp = "ok"
       THEN /\ fetchResult' = [done |-> TRUE, ok |-> TRUE, bytes |-> Len(ImageRequests) + 1]
            /\ fetchPc' = "done"
            /\ UNCHANGED fetchAttempt
       ELSE /\ fetchAttempt' = fetchAttempt + 1
            /\ fetchPc' = "top"
            /\ UNCHANGED fetchResult
    /\ UNCHANGED nonFetchVars

NextFetch ==
    \/ FetchStart
    \/ FetchTop
    \/ FetchLimit
    \/ \E resp \in ImageResponses : FetchGet(resp)

SpecFetch == Init /\ [][NextFetch]_vars

\* ------------------------------------------------------------------------
\* The worker pool: InitQueue builds it, CreateJob feeds it, and each worker
\* takes a task from the queue and runs processWrapper on it. The decklists
\* are blank, so the handler sets "parse", finds no line and sets "complete".
\* ------------------------------------------------------------------------
nonWorkerVars == <<rlVars, lookupVars, timedOut, poolVars, sweepVars, traceVars, served,
                   parseVars, fetchVars>>

\* workers := runtime.NumCPU(); workers = max(workers, 2); queue.NewPool(workers, ...)
InitQueue(ncpu) ==
    /\ workers = 0
    /\ workers' = IF ncpu > 2 THEN ncpu ELSE 2
    /\ running' = [w \in 1..workers' |-> 0]
    /\ UNCHANGED <<taken, jobVars, nonWorkerVars>>

\* A free worker takes the oldest task; processWrapper calls the handler,
\* which looks the job up and sets "parse".
PoolStart(w) ==
    /\ w \in DOMAIN running
    /\ running[w] = 0
    /\ queue # <<>>
    /\ running' = [running EXCEPT ![w] = Head(queue).JobID]
    /\ taken' = Append(taken, Head(queue).JobID)
    /\ queue' = Tail(queue)
    /\ jobs' = IF GetJob(Head(queue).JobID).exists
               THEN [jobs EXCEPT ![Head(queue).JobID] = setStatus(@, "parse")]
               ELSE jobs
    /\ statusHist' = Tracked(Head(queue).JobID)
    /\ UNCHANGED <<workers, pc, task, nonEmptyLines, resolveVars, pdfVars, nonWorkerVars>>

\* The handler of worker w finds no non-empty line, sets "complete" and
\* returns; processWrapper returns and the worker is free again.
PoolFinish(w) ==
    /\ w \in DOMAIN running
    /\ running[w] # 0
    /\ jobs' = IF GetJob(running[w]).exists
               THEN [jobs EXCEPT ![running[w]] = setStatus(@, "complete")]
               ELSE jobs
    /\ statusHist' = Tracked(running[w])
    /\ running' = [running EXCEPT ![w] = 0]
    /\ UNCHANGED <<workers, taken, queue, pc, task, nonEmptyLines, resolveVars, pdfVars,
                   nonWorkerVars>>

NextPool ==
    \/ \E ncpu \in 1..MaxCPU : InitQueue(ncpu)
    \/ \E id \in 1..PoolJobs : workers # 0 /\ CreateJob(id, <<BlankLine>>)
    \/ \E w \in 1..MaxCPU : PoolStart(w)
    \/ \E w \in 1..MaxCPU : PoolFinish(w)

SpecPool == Init /\ [][NextPool]_vars

\* ------------------------------------------------------------------------
\* rateLimitWait under a clock. The callers are the resolution goroutines
\* (ParseCard) and the fetch goroutines (FetchImageWithRetry) of all jobs;
\* the limiter does not tell them apart.
\* ------------------------------------------------------------------------
\* now.Sub(lastRequestTime)
Elapsed(c) == now[c] - lastRequestTime

\* The duration rateLimitWait sleeps for (0: no sleep).
SleepFor(c) == IF Elapsed(c) < minInterval THEN minInterval - Elapsed(c) ELSE 0

\* Variant: the time read before the sleep is stored.
Recorded_Stale(c) == now[c]

\* The value the last statement stores in lastRequestTime: time.Now().
Recorded(c) == clock

\* rateLimiterMutex.Lock(); now := time.Now()
RLLock(c) ==
    /\ rlpc[c] = "idle"
    /\ Len(returns) + Cardinality({d \in Callers : rlpc[d] # "idle"}) < MaxCalls
    /\ rateLimiterMutex = 0
    /\ rateLimiterMutex' = c
    /\ now' = [now EXCEPT ![c] = clock]
    /\ rlpc' = [rlpc EXCEPT ![c] = "sleep"]
    /\ UNCHANGED <<clock, lastRequestTime, returns, nonRLVars>>

\* Variant: the call returns without unlocking the mutex.
RLReturn_KeepLock(c) ==
    /\ rlpc[c] = "sleep"
    /\ clock >= now[c] + SleepFor(c)
    /\ lastRequestTime' = Recorded(c)
    /\ returns' = Append(returns, [t |-> lastRequestTime', by |-> c])
    /\ rlpc' = [rlpc EXCEPT ![c] = "idle"]
    /\ UNCHANGED <<rateLimiterMutex, clock, now, nonRLVars>>

\* time.Sleep returns once at least its duration has passed; then
\* lastRequestTime = time.Now(), the deferred Unlock and the return.
RLReturn(c) ==
    /\ rlpc[c] = "sleep"
    /\ clock >= now[c] + SleepFor(c)
    /\ lastRequestTime' = Recorded(c)
    /\ returns' = Append(returns, [t |-> lastRequestTime', by |-> c])
    /\ rateLimiterMutex' = 0
    /\ rlpc' = [rlpc EXCEPT ![c] = "idle"]
    /\ UNCHANGED <<clock, now, nonRLVars>>

\* Time passes.
ClockTick ==
    /\ clock < MaxTime
    /\ clock' = clock + Tick
    /\ UNCHANGED <<lastRequestTime, rateLimiterMutex, rlpc, now, returns, nonRLVars>>

NextRL ==
    \/ \E c \in Callers : RLLock(c)
    \/ \E c \in Callers : RLReturn(c)
    \/ ClockTick

SpecRL == Init /\ [][NextRL]_vars

\* ------------------------------------------------------------------------
\* rateLimitWait with its callers waiting for the mutex: a call first blocks
\* in Lock, is granted the mutex, sleeps if it must, and returns. The mutex
\* is granted fairly, a sleep ends when its time has come, and time passes
\* as long as a sleeper needs it.
\* ------------------------------------------------------------------------
\* The call: the caller blocks in rateLimiterMutex.Lock().
RLCall(c) ==
    /\ rlpc[c] = "idle"
    /\ Len(returns) + Cardinality({d \in Callers : rlpc[d] # "idle"}) < MaxCalls
    /\ rlpc' = [rlpc EXCEPT ![c] = "wait"]
    /\ UNCHANGED <<clock, lastRequestTime, rateLimiterMutex, now, returns, nonRLVars>>

\* Lock() returns to a waiting caller; now := time.Now()
RLAcquire(c) ==
    /\ rlpc[c] = "wait"
    /\ rateLimiterMutex = 0
    /\ rateLimiterMutex' = c
    /\ now' = [now EXCEPT ![c] = clock]
    /\ rlpc' = [rlpc EXCEPT ![c] = "sleep"]
    /\ UNCHANGED <<clock, lastRequestTime, returns, nonRLVars>>

\* Time passes, at least until every sleep under way can end.
ClockRun ==
    /\ \/ clock < MaxTime
       \/ \E c \in Callers : rlpc[c] = "sleep" /\ clock < now[c] + SleepFor(c)
    /\ clock' = clock + Tick
    /\ UNCHANGED <<lastRequestTime, rateLimiterMutex, rlpc, now, returns, nonRLVars>>

NextRLLive ==
    \/ \E c \in Callers : RLCall(c)
    \/ \E c \in Callers : RLAcquire(c)
    \/ \E c \in Callers : RLReturn(c)
    \/ ClockRun

SpecRLLive ==
    /\ Init
    /\ [][NextRLLive]_vars
    /\ \A c \in Callers : SF_vars(RLAcquire(c))
    /\ \A c \in Callers : WF_vars(RLReturn(c))
    /\ WF_vars(ClockRun)

\* ------------------------------------------------------------------------
\* The resolution goroutine of one line, with every catalog request it makes
\* in the history lkSent: the ParseCard call it belongs to, what it came back
\* with, and the sleep that preceded it (rateLimitWait's spacing aside).
\* ------------------------------------------------------------------------
\* Variant: the handler sleeps the same time after every failed try.
HandlerSleep_Flat(a) == handlerDelay

\* time.Sleep(time.Second * time.Duration(attempt+1)), as seen by the try
\* that follows: a is that try's value of attempt.
HandlerSleep(a) == handlerDelay * a

\* The requests of one ParseCard call, as entries of lkSent.
Requests(r, resp, a) ==
    [k \in 1..r.requests |->
        [call |-> a, resp |-> resp[k].kind, layout |-> resp[k].layout,
         wait |-> IF k = 1 THEN HandlerSleep(a) ELSE r.delays[k - 1]]]

\* go func(line string) { ... }(line)
LookupStart(line) ==
    /\ lkpc = "idle"
    /\ lkpc' = "run"
    /\ lkLine' = line
    /\ UNCHANGED <<lkAttempt, lkSent, lkResult, nonLookupVars>>

\* Variant: a try that ends on a throttling failure is not repeated.
LookupTry_ThrottleFinal ==
    /\ lkpc = "run"
    /\ \E resp \in [1..maxRetries -> MetaResponses] :
         LET r == ParseCard(lkLine, 1, resp) IN
         /\ lkSent' = lkSent \o Requests(r, resp, lkAttempt)
         /\ IF r.err # "" /\ r.err # "throttle" /\ lkAttempt < handlerAttempts - 1
            THEN /\ lkAttempt' = lkAttempt + 1
                 /\ UNCHANGED <<lkpc, lkResult>>
            ELSE /\ lkResult' = [card |-> r.card, err |-> r.err]
                 /\ lkpc' = "done"
                 /\ UNCHANGED lkAttempt
    /\ UNCHANGED <<lkLine, nonLookupVars>>

\* One pass of the goroutine's retry loop: a ParseCard call with its
\* requests; after a success or the last try the result is sent.
LookupTry ==
    /\ lkpc = "run"
    /\ \E resp \in [1..maxRetries -> MetaResponses] :
         LET r == ParseCard(lkLine, 1, resp) IN
         /\ lkSent' = lkSent \o Requests(r, resp, lkAttempt)
         /\ IF r.err # "" /\ lkAttempt < handlerAttempts - 1
            THEN /\ lkAttempt' = lkAttempt + 1
                 /\ UNCHANGED <<lkpc, lkResult>>
            ELSE /\ lkResult' = [card |-> r.card, err |-> r.err]
                 /\ lkpc' = "done"
                 /\ UNCHANGED lkAttempt
    /\ UNCHANGED <<lkLine, nonLookupVars>>

NextLookup ==
    \/ \E line \in Lines \ {BlankLine} : LookupStart(line)
    \/ LookupTry

SpecLookup == Init /\ [][NextLookup]_vars

\* ------------------------------------------------------------------------
\* Properties
\* ------------------------------------------------------------------------
Created == JobID \in DOMAIN jobs
Job == jobs[JobID]
Pages == Job.PDF.pages
Terminal(status) == status = "complete" \/ status = "error"
Range(f) == {f[i] : i \in DOMAIN f}
IsPrefix(a, b) == Len(a) <= Len(b) /\ \A i \in 1..Len(a) : a[i] = b[i]
Front(a) == SubSeq(a, 1, Len(a) - 1)
StagePath == <<"queued", "parse", "fetch", "generate", "complete">>

\* Every line was resolved: the collector holds one card per non-blank line.
AllResolved == nonEmptyLines # <<>> /\ Len(cards) = Len(nonEmptyLines)

\* An error result has been produced by some resolution goroutine.
ResolutionFailed ==
    \/ Len(errors) > 0
    \/ \E i \in DOMAIN resultsChan : resultsChan[i].err # ""

\* The indices of allURIs whose fetch succeeded, in increasing order.
RECURSIVE FetchedFrom(_)
FetchedFrom(i) ==
    IF i > Len(allURIs) THEN <<>>
    ELSE (IF errs[i] THEN <<>> ELSE <<i>>) \o FetchedFrom(i + 1)

RECURSIVE SumPages(_)
SumPages(cs) ==
    IF cs = <<>> THEN 0
    ELSE Head(cs).Quantity * Cardinality(Head(cs).ImageURIs) + SumPages(Tail(cs))

\* C1: in a complete job's document the pages follow the decklist's line
\* order: a page of the card of non-blank line i never comes after a page of
\* the card of a later line j.
C1_PagesInLineOrder ==
    (Created /\ Job.Status = "complete") =>
        \A k, l \in 1..Len(Pages) : k < l => Pages[k].uri.src <= Pages[l].uri.src

\* C2 (as stated): the statuses a job takes form a prefix of
\* queued, parse, fetch, generate, complete, or such a prefix ending at a
\* non-terminal status followed by error.
C2_StagePathOnly ==
    \/ IsPrefix(statusHist, StagePath)
    \/ /\ Len(statusHist) >= 2
       /\ statusHist[Len(statusHist)] = "error"
       /\ IsPrefix(Front(statusHist), StagePath)
       /\ ~Terminal(statusHist[Len(statusHist) - 1])

\* C2 (amended): as C2, or queued, parse, complete for a decklist without a
\* non-blank line.
C2_StagePathOrEmptyDecklist ==
    \/ C2_StagePathOnly
    \/ /\ statusHist = <<"queued", "parse", "complete">>
       /\ nonEmptyLines = <<>>

C2_Witness ==
    /\ statusHist = <<"queued", "parse", "complete">>
    /\ nonEmptyLines = <<>>
    /\ Len(task.Decklist) > 0

\* C3: in every state the job's PDF is set iff its status is complete, and
\* its Error is set iff its status is error.
C3_FieldsMatchStatus ==
    Created =>
        /\ Job.PDF.set <=> Job.Status = "complete"
        /\ Job.Error.set <=> Job.Status = "error"

\* C4: once the status is complete or error, no step changes the job's
\* status, PDF or Error; and no job is complete at one time and error at
\* another.
C4_TerminalIsPermanent ==
    /\ [][(Created /\ Terminal(Job.Status)) =>
             (JobID \in DOMAIN jobs' => jobs'[JobID] = jobs[JobID])]_vars
    /\ [](~({"complete", "error"} \subseteq Range(statusHist)))

C4_Witness ==
    /\ Created
    /\ pc = "done"
    /\ Job.Status = "error"
    /\ Job.Error.kind = "resolve"
    /\ Len(cards) > 0

\* C5: a decklist without a non-blank line gives a complete job whose
\* document is set and has no page, so that the result endpoint answers with
\* the document.
C5_EmptyDecklistDocument ==
    (pc = "done" /\ nonEmptyLines = <<>>) =>
        /\ Job.Status = "complete"
        /\ Job.PDF.set
        /\ Job.PDF.pages = <<>>
        /\ handleGetJobPDF(JobID) = "Document"

\* C6 (as stated): when every line was resolved, the job ends complete
\* whatever image fetches failed, and the document has exactly one page per
\* successfully fetched index, in index order.
C6_FetchFailuresNeverFail ==
    (pc = "done" /\ AllResolved) =>
        /\ Job.Status = "complete"
        /\ [k \in 1..Len(Pages) |-> Pages[k].index] = FetchedFrom(1)

\* C6 (amended): the same unless writing the document out (pdf.WriteTo)
\* fails, the one case in which the job ends in error.
C6_FetchFailuresTolerated ==
    (pc = "done" /\ AllResolved) =>
        \/ /\ Job.Status = "complete"
           /\ Job.PDF.set
           /\ [k \in 1..Len(Pages) |-> Pages[k].index] = FetchedFrom(1)
        \/ /\ Job.Status = "error"
           /\ Job.Error.kind = "pdf"

C6_Witness ==
    /\ pc = "done"
    /\ AllResolved
    /\ Job.Status = "complete"
    /\ \E i, j \in DOMAIN errs : errs[i] /\ ~errs[j] /\ i < j
    /\ Len(Pages) = Len(allURIs) - 1

\* C7: once the resolution of some line has failed, no image is ever
\* fetched and no document is stored, and the job ends in error with the
\* failure recorded.
C7_ResolutionFailureIsFatal ==
    ResolutionFailed =>
        /\ imageFetches = 0
        /\ allURIs = <<>>
        /\ ~Job.PDF.set
        /\ Job.Status # "complete"
        /\ pc = "done" => (Job.Status = "error" /\ Job.Error.set)

C7_Witness ==
    /\ pc = "done"
    /\ Len(errors) > 0
    /\ Len(cards) > 0
    /\ cards[1].Quantity > 0
    /\ Job.Status = "error"

\* C8: when every image fetch succeeded, the complete job's document has
\* exactly the sum over the resolved cards of quantity times faces pages, one
\* card per non-blank line.
C8_PageCount ==
    (Created /\ Job.Status = "complete" /\ Job.PDF.set
        /\ \A i \in DOMAIN errs : ~errs[i]) =>
        /\ Len(cards) = Len(nonEmptyLines)
        /\ Len(Pages) = SumPages(cards)

C8_Witness ==
    /\ Created
    /\ Job.Status = "complete"
    /\ \A i \in DOMAIN errs : ~errs[i]
    /\ Len(cards) = 2
    /\ Len(Pages) = 3

\* C9: in a complete job's document, the front page of a copy of a
\* two-sided card comes directly before the back page of that copy.
C9_FrontThenBack ==
    (Created /\ Job.Status = "complete") =>
        \A k, l \in 1..Len(Pages) :
            (/\ Pages[k].uri.card = Pages[l].uri.card
             /\ Pages[k].uri.copy = Pages[l].uri.copy
             /\ Pages[k].uri.face = "front"
             /\ Pages[l].uri.face = "back") => l = k + 1

\* C10: any two consecutive returns of rateLimitWait, whoever the callers,
\* are at least 100 ms apart, so M returns span at least (M-1) x 100 ms.
C10_Spacing ==
    /\ \A k \in 2..Len(returns) : returns[k].t - returns[k - 1].t >= minInterval
    /\ returns # <<>> =>
         returns[Len(returns)].t - returns[1].t >= (Len(returns) - 1) * minInterval

C10_Witness ==
    /\ Len(returns) = MaxCalls
    /\ \E k \in 2..Len(returns) :
         /\ returns[k].by # returns[k - 1].by
         /\ returns[k].t - returns[k - 1].t = minInterval
         /\ now[returns[k].by] < returns[k].t

\* ------------------------------------------------------------------------
\* Catalog requests per line (SpecLookup)
\* ------------------------------------------------------------------------
LookupDone == lkpc = "done"
SentKinds == [k \in 1..Len(lkSent) |-> lkSent[k].resp]
CallRequests(a) == SelectSeq(lkSent, LAMBDA e : e.call = a)
FailsTwiceThenSucceeds ==
    /\ LookupDone
    /\ Len(lkSent) >= 3
    /\ lkSent[Len(lkSent)].resp = "ok"
    /\ Cardinality({k \in 1..Len(lkSent) : lkSent[k].resp # "ok"}) = 2
SameKind(k1, k2) ==
    \/ k1 = k2
    \/ {k1, k2} \subseteq {"status", "baddecode"}

\* C11 as stated: at most 3 catalog requests are made for a line in total;
\* a lookup that fails twice and then succeeds takes exactly 3 requests and
\* the sleep before the third is double the sleep before the second.
C11_AtMostThreeRequests ==
    /\ Len(lkSent) <= 3
    /\ FailsTwiceThenSucceeds =>
         /\ Len(lkSent) = 3
         /\ lkSent[3].wait = 2 * lkSent[2].wait

\* C11 amended: each ParseCard call makes at most 3 requests and the handler
\* makes at most 3 calls, so at most 9 requests per line; a lookup that fails
\* twice and then succeeds takes exactly 3 requests, and when the two
\* failures are of the same kind the sleep before the third request is
\* double the sleep before the second.
C11_AtMostThreePerCall ==
    /\ lkAttempt < handlerAttempts
    /\ \A a \in 0..(handlerAttempts - 1) : Len(CallRequests(a)) <= maxRetries
    /\ Len(lkSent) <= handlerAttempts * maxRetries
    /\ FailsTwiceThenSucceeds =>
         /\ Len(lkSent) = 3
         /\ SameKind(lkSent[1].resp, lkSent[2].resp) =>
              lkSent[3].wait = 2 * lkSent[2].wait

C11_Witness ==
    /\ FailsTwiceThenSucceeds
    /\ SentKinds = <<"transport", "transport", "ok">>
    /\ lkSent[2].wait = baseDelay
    /\ lkSent[3].wait = 2 * baseDelay

\* C12 as stated: a lookup whose every request is answered 429 stops after
\* exactly 3 requests, the sleeps between them being 5 s and 10 s, and ends
\* in the throttling failure, which is not the transport failure.
AllAnswered(kind) ==
    /\ LookupDone
    /\ lkSent # <<>>
    /\ \A k \in 1..Len(lkSent) : lkSent[k].resp = kind

C12_ThrottledStopsAfterThree ==
    AllAnswered("throttle") =>
        /\ Len(lkSent) = 3
        /\ lkSent[2].wait = throttleDelay
        /\ lkSent[3].wait = 2 * throttleDelay
        /\ lkResult.err = "throttle"

\* C12 amended: a lookup whose every request is answered 429 stops after
\* exactly 9 requests, 3 in each of the handler's 3 ParseCard calls; within
\* a call the sleeps between the requests are 5 s and 10 s; the line's
\* failure is the throttling failure, and a lookup that only meets transport
\* failures ends in another failure.
C12_ThrottledStopsAfterNine ==
    /\ AllAnswered("throttle") =>
        /\ Len(lkSent) = handlerAttempts * maxRetries
        /\ \A a \in 0..(handlerAttempts - 1) :
             /\ Len(CallRequests(a)) = maxRetries
             /\ CallRequests(a)[2].wait = throttleDelay
             /\ CallRequests(a)[3].wait = 2 * throttleDelay
        /\ lkResult.err = "throttle"
    /\ AllAnswered("transport") =>
        /\ lkResult.err = "transport"
        /\ lkResult.err # "throttle"

C12_Witness ==
    /\ AllAnswered("throttle")
    /\ Len(lkSent) = 9
    /\ lkResult.err = "throttle"

\* C24 as stated: a lookup answered with an error status other than 429 is
\* retried with the backoff of a transport failure: 100 ms before the second
\* request, 200 ms before the third.
C24_StatusRetriedWithBackoff ==
    /\ Len(lkSent) >= 2 /\ lkSent[1].resp = "status" => lkSent[2].wait = baseDelay
    /\ Len(lkSent) >= 3 /\ lkSent[1].resp = "status" /\ lkSent[2].resp = "status" =>
         lkSent[3].wait = 2 * baseDelay

\* C24 amended: an error status other than 429 ends the ParseCard call at
\* once; the request that follows it belongs to the handler's next call and
\* comes after the handler's sleep of 1 s times the number of failed calls,
\* so a lookup answered with error statuses only makes 3 requests, with 1 s
\* before the second and 2 s before the third, and ends in that failure.
C24_StatusEndsCallHandlerRetries ==
    /\ \A k \in 1..(Len(lkSent) - 1) :
         lkSent[k].resp = "status" =>
           /\ lkSent[k + 1].call = lkSent[k].call + 1
           /\ lkSent[k + 1].wait = handlerDelay * lkSent[k + 1].call
    /\ AllAnswered("status") =>
         /\ Len(lkSent) = handlerAttempts
         /\ lkSent[2].wait = handlerDelay
         /\ lkSent[3].wait = 2 * handlerDelay
         /\ lkResult.err = "status"

C24_Witness ==
    /\ AllAnswered("status")
    /\ Len(lkSent) = 3
    /\ lkSent[3].wait = 2 * handlerDelay

\* C27: in the image fan-out the outcome of the fetch for index i goes to
\* slot i of the pre-sized arrays and to no other slot, whatever the order
\* in which the fetches finish, and the slots are read (by the page loop)
\* only after every fetch has finished.
AllFetched == \A i \in DOMAIN fetcher : fetcher[i] = "done"
C27_OwnSlotReadAfterAll ==
    [][/\ Len(errs') = Len(allURIs') /\ Len(imageData') = Len(allURIs')
       /\ pc = "fetchwait" /\ pc' = "fetchwait" =>
            \A i \in DOMAIN fetcher :
              /\ fetcher'[i] = fetcher[i] =>
                   errs'[i] = errs[i] /\ imageData'[i] = imageData[i]
              /\ fetcher'[i] # fetcher[i] =>
                   /\ fetcher[i] = "run" /\ fetcher'[i] = "done"
                   /\ errs'[i] = ~imageData'[i]
       /\ pc # "fetchwait" => errs' = errs \/ pc = "uris" \/ pc' = "idle"
       /\ pc # "fetchwait" => imageData' = imageData \/ pc = "uris" \/ pc' = "idle"
       /\ pageIdx' # pageIdx \/ pdf' # pdf => AllFetched \/ pc' = "idle"
       /\ pc' = "pages" => AllFetched'
       /\ \A k \in 1..Len(pdf') : ~errs'[pdf'[k].index] /\ pdf'[k].uri = allURIs'[pdf'[k].index]]_vars

\* The fetch for the second URL has finished, with its image in slot 2,
\* while the fetch for the first is still running.
C27_Witness ==
    /\ pc = "fetchwait"
    /\ Len(fetcher) >= 2
    /\ fetcher[1] = "run"
    /\ fetcher[2] = "done"
    /\ imageData[2]
    /\ ~imageData[1]
    /\ ~errs[2]

\* ------------------------------------------------------------------------
\* The task deadline (SpecDeadline)
\* ------------------------------------------------------------------------
\* C13 as stated: once the task is past its deadline the job never is
\* "complete", the handler makes no further catalog or image request and
\* emits no further page, and when the handler has returned the job is in
\* "error".
C13_DeadlineAborts ==
    /\ [](timedOut /\ Created => Job.Status # "complete")
    /\ [](timedOut /\ pc = "done" => Job.Status = "error")
    /\ [][timedOut => /\ imageFetches' = imageFetches
                      /\ pdf' = pdf
                      /\ attempt' = attempt]_vars

\* ------------------------------------------------------------------------
\* The full queue (SpecQueue)
\* ------------------------------------------------------------------------
QueuedIDs == {queue[k].JobID : k \in 1..Len(queue)}
OthersUnchanged(id) ==
    /\ queue' = queue
    /\ \A k \in DOMAIN jobs \ {id} : k \in DOMAIN jobs' /\ jobs'[k] = jobs[k]
    /\ DOMAIN jobs' \subseteq DOMAIN jobs \cup {id}

\* C14: a CreateJob call made while the queue holds its 100 tasks returns an
\* error: no task is added, once it has returned the store has no record of
\* the refused job, and every other job and every queued task is as before.
C14_FullQueueRejects ==
    /\ [](Len(queue) <= queueSize)
    /\ [](\A id \in rejected : id \notin DOMAIN jobs /\ id \notin QueuedIDs)
    /\ [][submitted' # submitted /\ Len(queue) = queueSize =>
            /\ creating' = submitted'
            /\ OthersUnchanged(submitted')]_vars
    /\ [][creating # 0 /\ creating' = 0 =>
            /\ creating \in rejected'
            /\ creating \notin DOMAIN jobs'
            /\ OthersUnchanged(creating)]_vars

C14_Witness ==
    /\ rejected # {}
    /\ Len(queue) = queueSize
    /\ creating = 0
    /\ Cardinality(DOMAIN jobs) > queueSize

\* ------------------------------------------------------------------------
\* The sweeper (SpecSweep)
\* ------------------------------------------------------------------------
SweepRuns == nextSweep' # nextSweep

\* C15: a sweep cycle removes every job created more than 1 hour before it,
\* whatever the job's status, and the store and the result endpoint report
\* the job as not found afterwards; every job created at most 1 hour before
\* the cycle is in the store, unchanged, after it.
C15_SweepRemovesExpired ==
    [][SweepRuns =>
        \A id \in DOMAIN jobs :
          IF wall - jobs[id].CreatedAt > retention
          THEN /\ id \notin DOMAIN jobs'
               /\ ~(GetJob(id).exists)'
               /\ handleGetJobPDF(id)' = "NotFound"
          ELSE /\ id \in DOMAIN jobs'
               /\ jobs'[id] = jobs[id]]_vars

\* A job was swept while its task was still queued, and a job whose age is
\* exactly the retention window is in the store after a cycle at this time.
C15_Witness ==
    /\ \E id \in 1..submitted : id \notin DOMAIN jobs /\ id \in QueuedIDs
    /\ \E k \in DOMAIN jobs : Age(jobs[k]) = retention
    /\ nextSweep > wall

\* ------------------------------------------------------------------------
\* The result endpoint (Spec)
\* ------------------------------------------------------------------------
\* C16 as stated: handleGetJobPDF answers with the document exactly for the
\* jobs whose status is "complete", with not-found for an id the store does
\* not hold, with the failure for a job in "error" and with not-ready for a
\* job in queued, parse, fetch or generate.
C16_DocumentIffComplete ==
    /\ handleGetJobPDF(0) = "NotFound"
    /\ ~Created => handleGetJobPDF(JobID) = "NotFound"
    /\ Created =>
        /\ handleGetJobPDF(JobID) = "Document" <=> Job.Status = "complete"
        /\ Job.Status = "error" => handleGetJobPDF(JobID) = "Failed"
        /\ Job.Status \in {"queued", "parse", "fetch", "generate"} =>
             handleGetJobPDF(JobID) = "NotReady"

\* ------------------------------------------------------------------------
\* Deletions from the store (SpecStore)
\* ------------------------------------------------------------------------
Removed(id) == id \in DOMAIN jobs /\ id \notin DOMAIN jobs'

Resolved == LookupDone /\ lkResult.err = ""
TwoSided(layout) == layout \in {"transform", "modal_dfc"}

\* C18: a resolved card carries the layout the catalog answered with; it has
\* exactly the two image URLs front and back if and only if that layout is
\* transform or modal_dfc, and exactly the one image URL front otherwise.
C18_TwoFacesIffTwoSided ==
    Resolved =>
        /\ lkResult.card.Layout = lkSent[Len(lkSent)].layout
        /\ lkResult.card.ImageURIs = {"front", "back"}
             <=> TwoSided(lkSent[Len(lkSent)].layout)
        /\ ~TwoSided(lkSent[Len(lkSent)].layout) =>
             lkResult.card.ImageURIs = {"front"}

C18_Witness ==
    /\ Resolved
    /\ lkSent[Len(lkSent)].layout = "modal_dfc"
    /\ lkResult.card.ImageURIs = {"front", "back"}

\* ------------------------------------------------------------------------
\* Status and stage (Spec)
\* ------------------------------------------------------------------------
\* C19 as stated: the status names the running stage: every catalog request
\* for the job's cards is made while the status is "fetch", the lines are
\* split and matched while it is "parse", and GeneratePDF (image downloads
\* and page assembly) runs while it is "generate".
C19_StatusNamesStage ==
    /\ metaStatus \subseteq {"fetch"}
    /\ pc \in {"filter", "collect"} => Job.Status = "parse"
    /\ pc \in {"uris", "fetchwait", "pages"} => Job.Status = "generate"

\* ------------------------------------------------------------------------
\* Lines matching neither pattern (Spec)
\* ------------------------------------------------------------------------
BadAt(i) == i \in DOMAIN nonEmptyLines /\ nonEmptyLines[i] = BadLine
Causes == {Job.Error.causes[k] : k \in 1..Len(Job.Error.causes)}

\* C20 as stated: a non-blank line matching neither pattern is never looked
\* up in the catalog, and the job ends in "error" with a failure that names
\* the line's text and its position in the decklist.
C20_BadLineNamedWithPosition ==
    \A i \in 1..MaxLines :
        BadAt(i) =>
            /\ i \notin requested
            /\ pc = "done" =>
                 /\ Job.Status = "error"
                 /\ \E c \in Causes : c.quoted = BadLine /\ c.lineNo = i

\* C20 amended: a non-blank line matching neither pattern is never looked up
\* in the catalog, and the job ends in "error" with a failure that names the
\* line's text.
C20_BadLineNamed ==
    \A i \in 1..MaxLines :
        BadAt(i) =>
            /\ i \notin requested
            /\ pc = "done" =>
                 /\ Job.Status = "error"
                 /\ Job.Error.set
                 /\ \E c \in Causes : c.quoted = BadLine /\ c.err = "parse"

\* The job of a card line followed by a line matching neither pattern has
\* ended: the card line was looked up, the other line was not.
C20_Witness ==
    /\ pc = "done"
    /\ nonEmptyLines = <<CardLine(1), BadLine>>
    /\ requested = {1}
    /\ Job.Status = "error"
    /\ Job.Error.count = 1

\* ------------------------------------------------------------------------
\* The API server (SpecAPI)
\* ------------------------------------------------------------------------
ListRequest == [method |-> "GET", path |-> <<Lit("api"), Lit("jobs")>>]

\* C22 as stated: a GET request for /api/jobs is served by the list handler,
\* which answers 200 with one status snapshot for every job in the store.
C22_ListRouteServed ==
    [][served'.req = ListRequest /\ served' # served =>
         /\ served'.handler = "handleGetAllJobs"
         /\ served'.code = 200
         /\ DOMAIN served'.body = DOMAIN jobs
         /\ \A id \in DOMAIN jobs : served'.body[id].status = jobs[id].Status]_vars

\* C28: a read (the status, result and list handlers with the GetJob,
\* GetAllJobs, GetStatus and GetPDF they call) changes neither the store nor
\* any job's status, document or failure, nor the queue; and no step of the
\* worker, the step that makes a job complete or error and the return of
\* processWrapper included, removes a job from the store.
C28_ReadsObserveAndCompletionKeeps ==
    [][/\ served' # served => jobs' = jobs /\ queue' = queue /\ task' = task
       /\ \A id \in DOMAIN jobs : id \in DOMAIN jobs']_vars

\* A document has been served while a failed job and the completed one are
\* both still in the store and the worker has returned from both.
C28_Witness ==
    /\ served.handler = "handleGetJobPDF"
    /\ served.code = 200
    /\ pc = "idle"
    /\ queue = <<>>
    /\ \E a, b \in DOMAIN jobs :
         /\ jobs[a].Status = "error"
         /\ jobs[b].Status = "complete"

\* ------------------------------------------------------------------------
\* The parser (SpecParse)
\* ------------------------------------------------------------------------
FormParsed == parsed.called /\ parsed.want # NoFields
HasParen(n) == \E k \in 1..Len(n) : n[k] \in {"(", ")"}

\* C23 as stated: a line <quantity> <name> (<set code>) <collector number>
\* is parsed to exactly that quantity, set code and collector number, also
\* when the name contains parentheses, and a card whose layout is not
\* two-sided gets a single front face.
C23_FormLineParsedExactly ==
    FormParsed =>
      /\ parsed.ok
      /\ parsed.card.Quantity = parsed.want.Quantity
      /\ parsed.card.Set = parsed.want.Set
      /\ parsed.card.CollectorNumber = parsed.want.CollectorNumber
      /\ (parsed.layout \notin {"transform", "modal_dfc"} => parsed.faces = {"front"})

\* ------------------------------------------------------------------------
\* The image fetcher (SpecFetch)
\* ------------------------------------------------------------------------
RequestAt == {p \in 1..Len(fetchTrace) : fetchTrace[p].ev = "request"}
FollowingRequest(p) == CHOOSE q \in RequestAt : q > p /\ \A r \in RequestAt : r > p => q <= r
HasFollowing(p) == \E q \in RequestAt : q > p
RECURSIVE Sleeps(_, _)
Sleeps(p, q) ==
    IF p > q THEN 0
    ELSE (IF fetchTrace[p].ev = "sleep" THEN fetchTrace[p].d ELSE 0) + Sleeps(p + 1, q)

\* C25: FetchImageWithRetry(uri, 2) issues at most 3 requests, calls the
\* rate limiter exactly once before each request, returns the bytes of the
\* first successful request, and returns an error only after the third
\* request has failed.
C25_ThreeRequestsLimiterBeforeEach ==
    /\ Len(ImageRequests) <= imageRetries + 1
    /\ \A p \in RequestAt :
         /\ p > 1 /\ fetchTrace[p - 1].ev = "limiter"
         /\ p > 2 => fetchTrace[p - 2].ev # "limiter"
    /\ Cardinality({p \in 1..Len(fetchTrace) : fetchTrace[p].ev = "limiter"})
         = Len(ImageRequests) + (IF fetchPc = "get" THEN 1 ELSE 0)
    /\ \A k \in 1..(Len(ImageRequests) - 1) : ImageRequests[k].resp # "ok"
    /\ fetchResult.done /\ fetchResult.ok =>
         /\ ImageRequests[Len(ImageRequests)].resp = "ok"
         /\ fetchResult.bytes = Len(ImageRequests)
    /\ fetchResult.done /\ ~fetchResult.ok =>
         /\ Len(ImageRequests) = imageRetries + 1
         /\ \A k \in 1..Len(ImageRequests) : ImageRequests[k].resp # "ok"
    /\ fetchResult.done <=> fetchPc = "done"

\* The third request succeeded after two failures and its body is returned.
C25_Witness ==
    /\ fetchResult.done
    /\ fetchResult.ok
    /\ Len(ImageRequests) = 3
    /\ fetchResult.bytes = 3

\* C26 as stated: after a 429 on attempt a (0 or 1) the fetcher's delay
\* before the next request is exactly 5 s * 2^a, which replaces the ordinary
\* backoff.
C26_ThrottleDelayReplaces ==
    \A p \in RequestAt :
      fetchTrace[p].resp = "throttle" /\ HasFollowing(p) =>
        Sleeps(p, FollowingRequest(p)) = imageThrottleDelay * 2^fetchTrace[p].attempt

\* C26 amended: after a 429 on attempt a (0 or 1) the fetcher sleeps
\* 5 s * 2^a and then the ordinary backoff of 2^a s that opens the next
\* pass: 6 s * 2^a in all before the next request; after any other failure
\* it sleeps the ordinary backoff alone; after a 429 on the last attempt it
\* does not sleep.
C26_ThrottleDelayAdded ==
    /\ \A p \in RequestAt :
         HasFollowing(p) =>
           LET a == fetchTrace[p].attempt
               q == FollowingRequest(p)
           IN IF fetchTrace[p].resp = "throttle"
              THEN /\ a < imageRetries
                   /\ q = p + 4
                   /\ fetchTrace[p + 1] = [ev |-> "sleep", d |-> imageThrottleDelay * 2^a,
                                           resp |-> "", attempt |-> a]
                   /\ fetchTrace[p + 2].ev = "sleep"
                   /\ fetchTrace[p + 2].d = imageBaseDelay * 2^a
                   /\ Sleeps(p, q) = (imageThrottleDelay + imageBaseDelay) * 2^a
              ELSE Sleeps(p, q) = imageBaseDelay * 2^a
    /\ \A p \in RequestAt :
         fetchTrace[p].attempt = imageRetries => p = Len(fetchTrace)

C26_Witness ==
    /\ fetchResult.done
    /\ Len(ImageRequests) = 3
    /\ ImageRequests[1].resp = "throttle"
    /\ ImageRequests[2].resp = "throttle"
    /\ Sleeps(1, Len(fetchTrace)) = 3 * (imageThrottleDelay + imageBaseDelay)

\* ------------------------------------------------------------------------
\* The worker pool (SpecPool)
\* ------------------------------------------------------------------------
\* Every task ever enqueued: those taken by a worker, then those waiting.
Enqueued == taken \o [k \in 1..Len(queue) |-> queue[k].JobID]
TasksFor(id) == Cardinality({k \in 1..Len(Enqueued) : Enqueued[k] = id})
WorkersOn(id) == {w \in DOMAIN running : running[w] = id}

\* C29: for every job id exactly one task is ever enqueued, and at any time
\* at most one worker executes the handler that mutates that job; a job's
\* record changes only in a step of the worker that holds its task.
C29_OneTaskOneWriter ==
    [][/\ \A id \in DOMAIN jobs' : TasksFor(id)' = 1
       /\ \A id \in DOMAIN jobs' : Cardinality(WorkersOn(id)') <= 1
       /\ \A w \in DOMAIN running' :
            running'[w] # 0 => \E k \in 1..Len(taken') : taken'[k] = running'[w]
       /\ \A id \in DOMAIN jobs :
            jobs'[id] # jobs[id] => WorkersOn(id) \cup WorkersOn(id)' # {}]_vars

\* Two workers run the handlers of two different jobs while a third task
\* waits in the queue.
C29_Witness ==
    /\ \E w1, w2 \in DOMAIN running :
         /\ running[w1] # 0
         /\ running[w2] # 0
         /\ running[w1] # running[w2]
    /\ queue # <<>>
    /\ \A id \in DOMAIN jobs : TasksFor(id) = 1

\* ------------------------------------------------------------------------
\* The parser's quantity (SpecParse)
\* ------------------------------------------------------------------------
\* C31 as stated: every card entry the parser accepts has a quantity of at
\* least 1; no accepted entry has quantity 0.
C31_AcceptedQuantityPositive ==
    parsed.called /\ parsed.ok => parsed.card.Quantity >= 1

\* ------------------------------------------------------------------------
\* The document and the status "complete" (Spec)
\* ------------------------------------------------------------------------
HasNonBlank(decklist) == \E k \in 1..Len(decklist) : IsNonEmpty(decklist[k])

\* C32: for a job with at least one non-blank line the document is stored
\* before the status becomes "complete", and neither changes afterwards: a
\* reader that sees "complete" through GetStatus and then calls GetPDF gets
\* a document.
C32_DocumentBeforeComplete ==
    [][/\ Created' /\ Job'.Status = "complete" /\ task'.JobID = JobID
          /\ HasNonBlank(task'.Decklist) =>
            /\ Job'.PDF.set
            /\ handleGetJobPDF(JobID)' = "Document"
       /\ Created /\ Job.Status = "complete" /\ ~Job'.PDF.set => ~Job.PDF.set
       /\ Created /\ Job.Status = "complete" => Created' /\ Job'.Status = "complete"]_vars

\* The job of a decklist with a card line is complete and its document is
\* what the reader gets.
C32_Witness ==
    /\ Created
    /\ Job.Status = "complete"
    /\ HasNonBlank(task.Decklist)
    /\ Job.PDF.set
    /\ handleGetJobPDF(JobID) = "Document"

\* ------------------------------------------------------------------------
\* The resolution fan-out (Spec)
\* ------------------------------------------------------------------------
Finished == {i \in DOMAIN resolver : resolver[i] = "done"}
Holding == {i \in DOMAIN resolver : resolver[i] = "holding"}
Received == Len(cards) + Len(errors)
FanOutStep ==
    \/ \E i \in 1..MaxLines : ResolveAcquire(i)
    \/ \E i \in 1..MaxLines : ResolveTry(i)
    \/ CloseResults
    \/ Collect
    \/ CollectDone

\* C33: the fan-out never deadlocks: while the handler is in it some step
\* of it can be taken; the results sent never exceed the channel's capacity
\* (the number of non-blank lines), each finished goroutine having sent one;
\* the channel is closed once, and only after every goroutine has finished;
\* and the collector decides only after it has received one result per
\* non-blank line.
C33_FanOutNeverBlocks ==
    /\ [](pc = "collect" => ENABLED FanOutStep)
    /\ [](pc = "collect" =>
            /\ Len(resultsChan) <= Len(nonEmptyLines)
            /\ Len(resultsChan) + Received = Cardinality(Finished)
            /\ chanClosed => Finished = DOMAIN resolver)
    /\ [][/\ chanClosed' /\ ~chanClosed => Finished = DOMAIN resolver /\ pc = "collect"
          /\ chanClosed /\ ~chanClosed' => pc' = "idle"
          /\ pc = "collect" /\ pc' # "collect" =>
               /\ chanClosed
               /\ resultsChan = <<>>
               /\ Received = Len(nonEmptyLines)]_vars

\* Both goroutines of a two-line decklist have sent before the collector
\* has received anything, and the channel is closed.
C33_Witness ==
    /\ pc = "collect"
    /\ Len(nonEmptyLines) = 2
    /\ Len(resultsChan) = 2
    /\ Received = 0
    /\ chanClosed

\* C35: within one job at most one resolution is in progress: a goroutine
\* holds the single semaphore slot from before its first ParseCard call to
\* its end, retries and their sleeps included, only the holder makes
\* requests, and the slot is free again on every way out.
C35_OneResolutionAtATime ==
    /\ [](/\ Cardinality(Holding) <= maxConcurrent
          /\ semaphore = Cardinality(Holding))
    /\ [][/\ \A i \in DOMAIN attempt \cap DOMAIN attempt' :
               attempt'[i] # attempt[i] => resolver[i] = "holding"
          /\ \A i \in DOMAIN attempt \cap DOMAIN attempt' :
               attempt'[i] > attempt[i] =>
                 /\ resolver'[i] = "holding"
                 /\ semaphore' = semaphore
          /\ requested' # requested => \E i \in Holding : requested' \subseteq requested \cup {i}
          /\ \A i \in DOMAIN resolver \cap DOMAIN resolver' :
               resolver[i] = "holding" /\ resolver'[i] = "done" =>
                 semaphore' = semaphore - 1]_vars

\* The goroutine of the first line is between two tries (its first
\* ParseCard call failed) and still holds the slot; the second waits.
C35_Witness ==
    /\ pc = "collect"
    /\ Len(resolver) = 2
    /\ resolver[1] = "holding"
    /\ attempt[1] = 1
    /\ resolver[2] = "ready"
    /\ semaphore = 1

Dequeues == queue # <<>> /\ queue' = Tail(queue)

\* C36: a task enters the queue only with its job's record in the store,
\* and the record of a queued task leaves the store only in a sweep cycle
\* that finds it older than the retention window; so a worker that takes a
\* task finds its job, and sets it to "parse", unless the sweeper evicted it
\* in between.
C36_QueuedTaskHasRecord ==
    [][/\ \A id \in QueuedIDs' \ QueuedIDs : id \in DOMAIN jobs'
       /\ \A id \in QueuedIDs \cap DOMAIN jobs :
            id \notin DOMAIN jobs' =>
              /\ SweepRuns
              /\ wall - jobs[id].CreatedAt > retention
       /\ Dequeues /\ Head(queue).JobID \in DOMAIN jobs =>
            /\ pc' = "filter"
            /\ task' = Head(queue)
            /\ jobs'[Head(queue).JobID].Status = "parse"]_vars

\* A worker has taken a task after time has passed and sweep cycles have
\* run, and found its job.
C36_Witness ==
    /\ pc = "filter"
    /\ task.JobID \in DOMAIN jobs
    /\ jobs[task.JobID].Status = "parse"
    /\ nextSweep > sweepInterval
    /\ wall > jobs[task.JobID].CreatedAt

\* ------------------------------------------------------------------------
\* A task whose job was evicted (SpecEvict)
\* ------------------------------------------------------------------------
NoRequestMade == requested' = requested /\ imageFetches' = imageFetches

\* C37: when the sweeper has evicted a job before a worker takes its task,
\* the handler returns at once on not finding it: no job's status changes,
\* no line is resolved and no catalog or image request is made, neither in
\* that step nor up to the worker's return.
C37_EvictedTaskDoesNothing ==
    /\ [][/\ pc = "idle" /\ Dequeues /\ Head(queue).JobID \notin DOMAIN jobs =>
               /\ pc' = "done"
               /\ jobs' = jobs
               /\ statusHist' = statusHist
               /\ nonEmptyLines' = nonEmptyLines
               /\ NoRequestMade
          /\ pc = "done" /\ pc' # "done" =>
               /\ pc' = "idle"
               /\ jobs' = jobs
               /\ NoRequestMade]_vars
    /\ [](submitted = 1 /\ statusHist = <<"queued">> =>
            /\ requested = {}
            /\ imageFetches = 0
            /\ pc \in {"idle", "done"})

\* The worker took the task of the evicted job and the handler has
\* returned: the store is empty and nothing was requested.
C37_Witness ==
    /\ pc = "done"
    /\ task.JobID = JobID
    /\ HasNonBlank(task.Decklist)
    /\ JobID \notin DOMAIN jobs
    /\ statusHist = <<"queued">>
    /\ requested = {}
    /\ imageFetches = 0

\* ------------------------------------------------------------------------
\* Images that cannot be drawn (Spec)
\* ------------------------------------------------------------------------
Fetched == {i \in DOMAIN imageData : imageData[i]}

Admitted == {c \in Callers : rlpc[c] = "sleep"}

\* C39: with the mutex granted fairly every call of rateLimitWait returns;
\* a caller holding the mutex sleeps at most 100 ms; and callers are
\* admitted one at a time: at most one is past Lock, and it is the holder
\* of the mutex.
C39_EveryCallReturns ==
    /\ \A c \in Callers : (rlpc[c] = "wait") ~> (rlpc[c] = "idle")
    /\ [](\A c \in Admitted : SleepFor(c) >= 0 /\ SleepFor(c) <= minInterval)
    /\ [](/\ Cardinality(Admitted) <= 1
          /\ \A c \in Admitted : rateLimiterMutex = c
          /\ Admitted = {} => rateLimiterMutex = 0)

\* One caller sleeps with the mutex while another waits in Lock.
C39_Witness ==
    \E c, d \in Callers :
      /\ rlpc[c] = "sleep"
      /\ SleepFor(c) > 0
      /\ clock < now[c] + SleepFor(c)
      /\ rlpc[d] = "wait"

====
